---- MODULE Spec2Model ----
(***************************************************************************)
(* zform: the field processing and validation pipeline.                    *)
(*                                                                         *)
(* Python values are written as follows.                                   *)
(*   text and scalar values   TLA+ strings; None is the string "None"      *)
(*   names, ids, flat keys    sequences of one-character strings           *)
(*   dict                     function whose DOMAIN is the set of keys     *)
(*   list                     sequence                                     *)
(*   optional composite       <<>> for None, <<x>> for the value x         *)
(*   engine error dict        dict with the keys "loc", "msg" and "type"   *)
(***************************************************************************)
EXTENDS Integers, Sequences, FiniteSets, TLC

VARIABLES fld, lst, obj, mgr, form, last

vars == <<fld, lst, obj, mgr, form, last>>

None == "None"

(***************************************************************************)
(* Bounds of the model.                                                    *)
(***************************************************************************)
MaxKeys == 2
MaxItems == 2
MaxObjects == 2

(***************************************************************************)
(* Text helpers (Python str operations on sequences of characters).        *)
(***************************************************************************)
Digits == <<"0", "1", "2", "3", "4", "5", "6", "7", "8", "9">>

DigitVal(c) == (CHOOSE i \in 1..10 : Digits[i] = c) - 1

IsDigitChar(c) == \E i \in 1..10 : Digits[i] = c

\* str.isdigit(): non-empty and every character a digit
IsDigit(s) == Len(s) > 0 /\ \A i \in 1..Len(s) : IsDigitChar(s[i])

\* str.startswith(p)
StartsWith(s, p) == Len(s) >= Len(p) /\ SubSeq(s, 1, Len(p)) = p

\* s[k:] for a 0-based k (empty when k is past the end)
SliceFrom(s, k) == SubSeq(s, k + 1, Len(s))

\* s.split(".", maxsplit=1)[0]
FirstSegment(s) ==
    IF \E i \in 1..Len(s) : s[i] = "."
    THEN SubSeq(s, 1, (CHOOSE i \in 1..Len(s) :
                          s[i] = "." /\ \A j \in 1..(i - 1) : s[j] # ".") - 1)
    ELSE s

RECURSIVE ToInt(_)
\* int(s) for an all-digit s
ToInt(s) ==
    IF Len(s) = 0 THEN 0
    ELSE 10 * ToInt(SubSeq(s, 1, Len(s) - 1)) + DigitVal(s[Len(s)])

RECURSIVE IntToStr(_)
\* str(n) for n >= 0
IntToStr(n) ==
    IF n < 10 THEN <<Digits[n + 1]>>
    ELSE IntToStr(n \div 10) \o <<Digits[(n % 10) + 1]>>

RECURSIVE SortedSeq(_)
\* sorted(S) for a finite set of integers
SortedSeq(S) ==
    IF S = {} THEN <<>>
    ELSE LET m == CHOOSE x \in S : \A y \in S : x <= y
         IN <<m>> \o SortedSeq(S \ {m})

\* f"{prefix}.{segment}"
DotKey(prefix, segment) == prefix \o <<".">> \o segment

\* dict.get(k) on a flat submission
FormGet(fd, k) == IF k \in DOMAIN fd THEN fd[k] ELSE None

\* dict(d, **{k: v}) / d.update({k: v})
DictPut(d, k, v) == [x \in (DOMAIN d) \cup {k} |-> IF x = k THEN v ELSE d[x]]

EmptyDict == [x \in {} |-> None]

(***************************************************************************)
(* The schema/validation engine (external collaborator), by its contract:  *)
(* validate(raw) gives a typed value and an empty error list, or no value  *)
(* and a non-empty error list; serialize(typed) gives the display value.   *)
(***************************************************************************)
FieldTypes == {"str", "int", "enum"}

\* texts the engine parses as an integer, and typed integers
IntTexts == {"30", "7"}
IntTyped(r) == "#" \o r
IntValues == {IntTyped(r) : r \in IntTexts}

\* tokens of the enumeration, and its members
EnumTokens == {"red", "green"}
EnumMember(r) == "Color." \o r
EnumMembers == {EnumMember(r) : r \in EnumTokens}

\* keys of an engine error dict, and the reserved key of whole-record errors
LocKey == <<"l", "o", "c">>
MsgKey == <<"m", "s", "g">>
TypeKey == <<"t", "y", "p", "e">>
FormKey == <<"f", "o", "r", "m">>

EngineError(loc, msg, type) == (LocKey :> loc) @@ (MsgKey :> msg) @@ (TypeKey :> type)

\* ModelField.validate(data, ctx, loc): <<typed value, error list>>
EngineValidate(type, data, loc) ==
    CASE type = "str" ->
           IF data # None /\ data \notin IntValues /\ data \notin EnumMembers
           THEN [v |-> data, errors |-> <<>>]
           ELSE [v |-> None,
                 errors |-> <<EngineError(loc, "Input should be a valid string",
                                          "string_type")>>]
      [] type = "int" ->
           IF data \in IntTexts THEN [v |-> IntTyped(data), errors |-> <<>>]
           ELSE IF data \in IntValues THEN [v |-> data, errors |-> <<>>]
           ELSE [v |-> None,
                 errors |-> <<EngineError(loc, "Input should be a valid integer",
                                          "int_parsing")>>]
      [] type = "enum" ->
           IF data \in EnumTokens THEN [v |-> EnumMember(data), errors |-> <<>>]
           ELSE IF data \in EnumMembers THEN [v |-> data, errors |-> <<>>]
           ELSE [v |-> None,
                 errors |-> <<EngineError(loc, "Input should be 'red' or 'green'",
                                          "enum")>>]

\* ModelField.serialize(v): the JSON form of a typed value
EngineSerialize(type, v) ==
    IF type = "enum" /\ v \in EnumMembers
    THEN CHOOSE r \in EnumTokens : EnumMember(r) = v
    ELSE v

\* Python truthiness of a scalar
Truthy(x) == x # None /\ x # ""

\* [i["msg"] for i in errors]
format_errors(errors) == [i \in 1..Len(errors) |-> errors[i][MsgKey]]

\* format_errors raises KeyError on an entry that has no "msg" key
FormatRaises(errors) == \E i \in 1..Len(errors) : MsgKey \notin DOMAIN errors[i]

(***************************************************************************)
(* FieldBase: a leaf field.                                                *)
(***************************************************************************)
\* FieldBase.__init__: the attributes of a field before any processing
BlankField(name, alias, type, default) ==
    [name |-> name, id |-> alias, alias |-> alias, type |-> type,
     default |-> None, required |-> (default = None),
     value |-> None, data |-> None, raw_data |-> None, errors |-> <<>>]

\* FieldBase.data (property): raw_data if raw_data else _data
DataOf(f) == IF Truthy(f.raw_data) THEN f.raw_data ELSE f.data

\* FieldBase.clear
FieldClear(f) ==
    [f EXCEPT !.raw_data = None, !.errors = <<>>, !.data = None, !.value = None]

\* FieldBase.process with the value assigned whatever the outcome
FieldProcess_AssignsOnFailure(f, data, suppress_error) ==
    LET r == EngineValidate(f.type, data, <<"FieldBase">>)
        s == EngineSerialize(f.type, r.v)
    IN [f EXCEPT
          !.value = r.v,
          !.data = IF r.errors = <<>> THEN (IF Truthy(s) THEN s ELSE r.v) ELSE @,
          !.errors = IF suppress_error THEN <<>> ELSE r.errors]

\* FieldBase.process with the new errors added to the ones already held
FieldProcess_KeepsErrors(f, data, suppress_error) ==
    LET r == EngineValidate(f.type, data, <<"FieldBase">>)
        s == EngineSerialize(f.type, r.v)
    IN [f EXCEPT
          !.value = IF r.errors = <<>> THEN r.v ELSE @,
          !.data = IF r.errors = <<>> THEN (IF Truthy(s) THEN s ELSE r.v) ELSE @,
          !.errors = IF suppress_error THEN <<>> ELSE @ \o r.errors]

\* FieldBase.process(data, suppress_error)
FieldProcess(f, data, suppress_error) ==
    LET r == EngineValidate(f.type, data, <<"FieldBase">>)
        s == EngineSerialize(f.type, r.v)
    IN [f EXCEPT
          !.value = IF r.errors = <<>> THEN r.v ELSE @,
          !.data = IF r.errors = <<>> THEN (IF Truthy(s) THEN s ELSE r.v) ELSE @,
          !.errors = IF suppress_error THEN <<>> ELSE r.errors]

\* FieldBase.load
FieldLoad(f) == FieldProcess(f, f.default, TRUE)

\* FieldBaseMeta.__call__ and FieldBase.on_field_ready: construction, then the
\* default setter (process the default with errors suppressed, then store it)
NewField(name, alias, type, default) ==
    [FieldProcess(BlankField(name, alias, type, default), default, TRUE)
        EXCEPT !.default = default]

\* FormParameterResolver.resolve (external): look the alias up in the flat
\* submission; a missing or empty value is an error for a required field and
\* the default otherwise; any other value is validated in form mode
Resolve(f, fd) ==
    LET value == FormGet(fd, f.alias)
        raw == [k \in {f.name} |-> value]
    IN IF value = None \/ value = ""
       THEN IF f.required
            THEN [data |-> <<>>,
                  errors |-> <<EngineError(<<"body">>, "Field required", "missing")>>,
                  raw_data |-> raw]
            ELSE [data |-> <<[k \in {f.name} |-> f.default]>>,
                  errors |-> <<>>, raw_data |-> raw]
       ELSE LET r == EngineValidate(f.type, value, <<"body">>)
            IN IF r.errors # <<>>
               THEN [data |-> <<>>, errors |-> r.errors, raw_data |-> raw]
               ELSE [data |-> <<[k \in {f.name} |-> r.v]>>,
                     errors |-> <<>>, raw_data |-> raw]

\* FieldBase.process_form_data with the value unset when the resolver fails
FieldProcessFormData_UnsetsOnFailure(f, fd) ==
    LET res == Resolve(f, fd)
    IN [field |-> [f EXCEPT
                     !.raw_data = res.raw_data[f.name],
                     !.errors = format_errors(res.errors),
                     !.value = IF res.errors = <<>> THEN res.data[1][f.name]
                               ELSE None],
        res |-> res]

\* FieldBase.process_form_data: the field afterwards and the ResolverResult
FieldProcessFormData(f, fd) ==
    LET res == Resolve(f, fd)
    IN [field |-> [f EXCEPT
                     !.raw_data = res.raw_data[f.name],
                     !.errors = format_errors(res.errors),
                     !.value = IF res.errors = <<>> THEN res.data[1][f.name] ELSE @],
        res |-> res]

(***************************************************************************)
(* SpecField: one leaf field under process, load, clear and                *)
(* process_form_data.                                                      *)
(***************************************************************************)
Unused == <<>>

\* values handed to process(): absent, text, typed values
ProcessInputs == {None, "", "John ", "30", "red", "#7", "Color.green"}

\* a declared default of each field type
DefaultOf(type) ==
    CASE type = "str" -> "Okay" [] type = "int" -> "#7" [] type = "enum" -> "Color.red"

FieldKey == <<"c">>

\* flat submissions for a leaf field: its own key, or an unrelated key
FieldForms ==
    {EmptyDict} \cup
    {[k \in {key} |-> v] : key \in {FieldKey, <<"z">>},
                           v \in {"", "John ", "30", "red"}}

InitField ==
    /\ \E type \in FieldTypes, hasDefault \in BOOLEAN :
          fld = NewField(FieldKey, FieldKey, type,
                         IF hasDefault THEN DefaultOf(type) ELSE None)
    /\ lst = Unused /\ obj = Unused /\ mgr = Unused
    /\ form = EmptyDict
    /\ last = [op |-> "init"]

FldProcess ==
    /\ \E data \in ProcessInputs, suppress_error \in BOOLEAN :
          /\ fld' = FieldProcess(fld, data, suppress_error)
          /\ last' = [op |-> "process", data |-> data,
                      suppress_error |-> suppress_error,
                      repeat |-> (/\ last.op = "process"
                                  /\ last.data = data
                                  /\ last.suppress_error = suppress_error)]
    /\ UNCHANGED <<lst, obj, mgr, form>>

FldLoad ==
    /\ fld' = FieldLoad(fld)
    /\ last' = [op |-> "load"]
    /\ UNCHANGED <<lst, obj, mgr, form>>

FldClear ==
    /\ fld' = FieldClear(fld)
    /\ last' = [op |-> "clear"]
    /\ UNCHANGED <<lst, obj, mgr, form>>

FldProcessFormData ==
    /\ \E fd \in FieldForms :
          \E r \in {FieldProcessFormData(fld, fd)} :
             /\ fld' = r.field
             /\ last' = [op |-> "process_form_data", form |-> fd, res |-> r.res]
    /\ UNCHANGED <<lst, obj, mgr, form>>

NextField == FldProcess \/ FldLoad \/ FldClear \/ FldProcessFormData

SpecField == InitField /\ [][NextField]_vars

\* C10: when process(raw, suppress_error) fails the engine's validation the
\* field's value is the one it had before the call, and errors is the engine's
\* non-empty error list if suppress_error is false and empty if it is true;
\* when the validation succeeds errors is empty and value is the new typed
\* value.
C10_ProcessOutcome ==
    [][last'.op = "process" =>
         LET r == EngineValidate(fld.type, last'.data, <<"FieldBase">>)
         IN IF r.errors # <<>>
            THEN /\ fld'.value = fld.value
                 /\ IF last'.suppress_error
                    THEN fld'.errors = <<>>
                    ELSE Len(fld'.errors) > 0 /\ fld'.errors = r.errors
            ELSE /\ fld'.errors = <<>>
                 /\ fld'.value = r.v]_vars

\* a failed process with errors reported, on a field that held a value
C10_Witness ==
    /\ last.op = "process"
    /\ ~last.suppress_error
    /\ Len(fld.errors) > 0
    /\ fld.value # None

\* the step is a processing call on the field: process, load (which processes
\* the default) or process_form_data
Processing(l) == l.op \in {"process", "load", "process_form_data"}

\* the errors that processing call produced and the typed value it produced,
\* read from the engine for process and load and from the resolver's result
\* for process_form_data; f is the field before the call
ProducedErrors(f, l) ==
    CASE l.op = "process" -> EngineValidate(f.type, l.data, <<"FieldBase">>).errors
      [] l.op = "load" -> EngineValidate(f.type, f.default, <<"FieldBase">>).errors
      [] l.op = "process_form_data" -> l.res.errors

ProducedValue(f, l) ==
    CASE l.op = "process" -> EngineValidate(f.type, l.data, <<"FieldBase">>).v
      [] l.op = "load" -> EngineValidate(f.type, f.default, <<"FieldBase">>).v
      [] l.op = "process_form_data" -> l.res.data[1][f.name]

C12_ProcessTwice ==
    [][(last'.op = "process" /\ last'.repeat) =>
          /\ fld'.value = fld.value
          /\ fld'.data = fld.data /\ DataOf(fld') = DataOf(fld)
          /\ fld'.errors = fld.errors]_vars

\* the second of two equal failing process calls with errors reported, on a
\* field that holds a value
C12_Witness ==
    /\ last.op = "process" /\ last.repeat
    /\ ~last.suppress_error
    /\ fld.errors # <<>>
    /\ fld.value # None

(***************************************************************************)
(* FieldList: a list of fields built from one base field.                  *)
(***************************************************************************)
\* FieldList._extra_indices without the sort: the indices in descending order
extra_indices_Unsorted(id, form_data) ==
    LET S == {ToInt(FirstSegment(SliceFrom(name, Len(id) + 1))) :
                name \in {n \in DOMAIN form_data :
                            /\ StartsWith(n, id)
                            /\ IsDigit(FirstSegment(SliceFrom(n, Len(id) + 1)))}}
        asc == SortedSeq(S)
    IN [i \in 1..Len(asc) |-> asc[Len(asc) + 1 - i]]

\* FieldList._extra_indices: the sorted indices found in the flat keys
extra_indices(id, form_data) ==
    SortedSeq({ToInt(FirstSegment(SliceFrom(name, Len(id) + 1))) :
                 name \in {n \in DOMAIN form_data :
                             /\ StartsWith(n, id)
                             /\ IsDigit(FirstSegment(SliceFrom(n, Len(id) + 1)))}})

\* the name FieldBase.__init__ gives a field constructed without one
NoNameKey == <<"n", "o", "-", "n", "a", "m", "e">>

\* the name FieldList.__init__ gives its base field
ListItemPlaceholder ==
    <<"l", "i", "s", "t", "I", "t", "e", "m", "[",
      "p", "l", "a", "c", "e", "h", "o", "l", "d", "e", "r", "]">>

\* FieldList.__init__: the base field, constructed by the caller without
\* field_info_args (so never processed), then renamed
base_field_template(item_type) ==
    [BlankField(NoNameKey, NoNameKey, item_type, None)
        EXCEPT !.name = ListItemPlaceholder]

\* FieldList.__init__ / FieldBase.__init__: a list field before any processing
BlankList(name, alias, item_type) ==
    [name |-> name, id |-> alias, alias |-> alias, item_type |-> item_type,
     base_field |-> base_field_template(item_type),
     default |-> <<>>, items |-> <<>>,
     value |-> None, data |-> None, raw_data |-> None, errors |-> <<>>]

\* FieldList._get_new_field_at: a new field of the base field's type with the
\* list's name, addressed at the given alias (never with a default)
get_new_field_at(l, alias) ==
    NewField(l.name, alias, l.base_field.type, None)

\* FieldList.add_item with the index counted from one
ListAddItem_IndexFromOne(l) ==
    [l EXCEPT !.items =
        Append(@, get_new_field_at(l, DotKey(l.id, IntToStr(Len(l.items) + 1))))]

\* FieldList.add_item: the list afterwards (the new item is its last item)
ListAddItem(l) ==
    [l EXCEPT !.items =
        Append(@, get_new_field_at(l, DotKey(l.id, IntToStr(Len(l.items)))))]

\* FieldList.__iter__ without the placeholder of an empty list
ListIter_NoPlaceholder(l) == l

\* FieldList.__iter__: the list afterwards (its items are what is iterated)
ListIter(l) == IF Len(l.items) = 0 THEN ListAddItem(l) ELSE l

\* FieldList.clear without the removal of the items
ListClear_KeepsItems(l) ==
    [l EXCEPT !.raw_data = None, !.errors = <<>>, !.data = None, !.value = None]

\* FieldList.clear
ListClear(l) ==
    [l EXCEPT !.raw_data = None, !.errors = <<>>, !.data = None, !.value = None,
              !.items = <<>>]

RECURSIVE ListProcessItems(_, _, _)
\* the loop of FieldList.process: add_item().process(item_data) per element
ListProcessItems(l, data, suppress_error) ==
    IF data = <<>> THEN l
    ELSE LET a == ListAddItem(l)
             n == Len(a.items)
         IN ListProcessItems(
              [a EXCEPT !.items[n] = FieldProcess(@, Head(data), suppress_error)],
              Tail(data), suppress_error)

\* a sequence value that is not a list (a tuple): its elements and a tag
TupleOf(elements) == <<elements, <<"tuple">> >>

\* isinstance(data, list)
isinstance_list(data) == Len(data) = 1

\* FieldList.process(data, suppress_error); data is <<>> for a value that is
\* not a sequence, <<list>> for a list and TupleOf(elements) for a tuple
ListProcess(l, data, suppress_error) ==
    LET cleared == [l EXCEPT !.items = <<>>]
    IN IF ~isinstance_list(data) THEN cleared
       ELSE ListProcessItems(cleared, data[1], suppress_error)

\* FieldBase.load on a list
ListLoad(l) == ListProcess(l, l.default, TRUE)

\* FieldBaseMeta.__call__ / on_field_ready on a list: the default setter
NewList(name, alias, item_type, default) ==
    [ListProcess(BlankList(name, alias, item_type), default, TRUE)
        EXCEPT !.default = default]

\* truthiness of FieldList.default: None and the empty list are falsy
DefaultTruthy(l) == l.default # <<>> /\ l.default[1] # <<>>

RECURSIVE ConcatAll(_)
ConcatAll(ss) == IF ss = <<>> THEN <<>> ELSE Head(ss) \o ConcatAll(Tail(ss))

\* FieldList.process_form_data: the list afterwards and the ResolverResult
ListProcessFormData(l, fd) ==
    LET indices == extra_indices(l.id, fd)
        n == Len(indices)
        child == [i \in 1..n |->
                    FieldProcessFormData(
                      get_new_field_at(l, DotKey(l.id, IntToStr(indices[i]))), fd)]
        found == [i \in 1..n |->
                    IF child[i].res.data # <<>> THEN child[i].res.data[1][l.name]
                    ELSE None]
        raw_data == [k \in {IntToStr(indices[i]) : i \in 1..n} |->
                       LET i == CHOOSE j \in 1..n : IntToStr(indices[j]) = k
                       IN child[i].res.raw_data[l.name]]
        item_errors == ConcatAll([i \in 1..n |-> child[i].res.errors])
        values == IF found = <<>> /\ DefaultTruthy(l) THEN l.default[1] ELSE found
        errors == IF values = <<>> /\ ~DefaultTruthy(l)
                  THEN Append(item_errors,
                              EngineError(<<l.alias>>, "Input must be a list",
                                          "type_error"))
                  ELSE item_errors
    IN [field |-> [l EXCEPT !.items = @ \o [i \in 1..n |-> child[i].field]],
        res |-> [data |-> <<[k \in {l.alias} |->
                               IF values # <<>> THEN <<values>> ELSE l.default]>>,
                 errors |-> errors,
                 raw_data |-> [k \in {l.alias} |-> raw_data]]]


(***************************************************************************)
(* ObjectField: a field that owns an ordered list of child fields.         *)
(***************************************************************************)
\* ObjectField._name_formatter: <object alias>.<child name>
name_formatter(alias, name) == DotKey(alias, name)

\* ObjectField.__init__ / setup: the children are built at their prefixed
\* aliases; child_specs is a sequence of [name, type, default]
BlankObject(name, child_specs) ==
    [name |-> name, id |-> name, alias |-> name,
     fields |-> [i \in 1..Len(child_specs) |->
                   NewField(child_specs[i].name,
                            name_formatter(name, child_specs[i].name),
                            child_specs[i].type, child_specs[i].default)],
     default |-> <<>>,
     value |-> <<>>, data |-> None, raw_data |-> None, errors |-> EmptyDict]

\* ObjectField.process(data, suppress_error); data is <<>> for None and
\* <<dict>> for a mapping: each child processes data.get(child.name)
ObjectProcess(o, data, suppress_error) ==
    LET d == IF data = <<>> THEN EmptyDict ELSE data[1]
    IN [o EXCEPT !.fields =
          [i \in 1..Len(@) |->
             FieldProcess(@[i], FormGet(d, @[i].name), suppress_error)]]

\* FieldBase.load on an object
ObjectLoad(o) == ObjectProcess(o, o.default, TRUE)

\* FieldBaseMeta.__call__ / on_field_ready on an object: the default setter
NewObject(name, child_specs) == ObjectLoad(BlankObject(name, child_specs))

\* FieldBase.clear on an object (the children are not visited)
ObjectClear(o) ==
    [o EXCEPT !.raw_data = None, !.errors = EmptyDict, !.data = None,
              !.value = <<>>]

\* the whole-record validation of an object's schema (external engine): the
\* cross-field rule of the nested schema rejects equal name and age texts
ObjectRecordValidate(values) ==
    IF \E k1 \in DOMAIN values, k2 \in DOMAIN values :
          k1 # k2 /\ values[k2] = IntTyped(values[k1])
    THEN [v |-> <<>>,
          errors |-> <<EngineError(<<FormKey>>, "Value error, fields must differ",
                                   "value_error")>>]
    ELSE [v |-> <<values>>, errors |-> <<>>]

\* ObjectField._process_form_data: every child's process_form_data in order
ObjectChildren(o, fd) ==
    [i \in 1..Len(o.fields) |-> FieldProcessFormData(o.fields[i], fd)]

\* ObjectField.process_form_data with the values of the valid children
\* dropped from the result when a child fails
ObjectProcessFormData_DropsValues(o, fd) ==
    LET child == ObjectChildren(o, fd)
        n == Len(child)
        fields == [i \in 1..n |-> child[i].field]
        bad == {i \in 1..n : child[i].res.errors # <<>>}
        errors == [k \in {o.fields[i].name : i \in bad} |->
                     LET i == CHOOSE j \in bad : o.fields[j].name = k
                     IN format_errors(child[i].res.errors)]
        raw_data == [k \in {o.fields[i].name : i \in 1..n} |->
                       LET i == CHOOSE j \in 1..n : o.fields[j].name = k
                       IN child[i].res.raw_data[k]]
    IN [field |-> [o EXCEPT !.fields = fields, !.errors = errors],
        res |-> [data |-> <<[k \in {o.name} |-> <<EmptyDict>>]>>,
                 errors |-> <<(MsgKey :> errors)>>,
                 raw_data |-> [k \in {o.name} |-> raw_data]]]

\* ObjectField.process_form_data: the object afterwards and the ResolverResult
ObjectProcessFormData(o, fd) ==
    LET child == ObjectChildren(o, fd)
        n == Len(child)
        fields == [i \in 1..n |-> child[i].field]
        ok == {i \in 1..n : child[i].res.data # <<>>}
        bad == {i \in 1..n : child[i].res.errors # <<>>}
        values == [k \in {o.fields[i].name : i \in ok} |->
                     LET i == CHOOSE j \in ok : o.fields[j].name = k
                     IN child[i].res.data[1][k]]
        errors == [k \in {o.fields[i].name : i \in bad} |->
                     LET i == CHOOSE j \in bad : o.fields[j].name = k
                     IN format_errors(child[i].res.errors)]
        raw_data == [k \in {o.fields[i].name : i \in 1..n} |->
                       LET i == CHOOSE j \in 1..n : o.fields[j].name = k
                       IN child[i].res.raw_data[k]]
        r == ObjectRecordValidate(values)
        own == IF r.errors # <<>>
               THEN [k \in {o.name} |-> format_errors(r.errors)]
               ELSE o.errors
    IN IF DOMAIN errors = {}
       THEN [field |-> [o EXCEPT !.fields = fields,
                                 !.value = IF r.errors = <<>> THEN r.v ELSE @,
                                 !.errors = own],
             res |-> [data |-> <<[k \in {o.name} |-> r.v]>>,
                      errors |-> IF DOMAIN own # {}
                                 THEN (IF r.errors # <<>> THEN r.errors ELSE <<own>>)
                                 ELSE <<>>,
                      raw_data |-> [k \in {o.name} |-> raw_data]]]
       ELSE [field |-> [o EXCEPT !.fields = fields, !.errors = errors],
             res |-> [data |-> <<[k \in {o.name} |-> <<values>>]>>,
                      errors |-> <<(MsgKey :> errors)>>,
                      raw_data |-> [k \in {o.name} |-> raw_data]]]


(***************************************************************************)
(* SpecIdx: index extraction over flat submissions.                        *)
(***************************************************************************)
\* list ids whose indices are extracted
Prefixes == {<<"x">>, <<"x", "y">>}

\* flat keys: "x", then a separator, a segment and a tail
KeySeparators == {<<>>, <<".">>, <<"y">>, <<"y", ".">>, <<"_">>}
KeySegments == {<<>>, <<"0">>, <<"1">>, <<"3">>, <<"1", "0">>, <<"0", "1">>,
                <<"a">>, <<"1", "a">>}
KeyTails == {<<>>, <<".", "n">>}
KeyPool == {<<"x">> \o sep \o seg \o tail :
              sep \in KeySeparators, seg \in KeySegments, tail \in KeyTails}

InitIdx ==
    /\ form = EmptyDict
    /\ fld = Unused /\ lst = Unused /\ obj = Unused /\ mgr = Unused
    /\ last = [op |-> "init"]

IdxAddKey ==
    /\ Cardinality(DOMAIN form) < MaxKeys
    /\ \E k \in KeyPool \ DOMAIN form : form' = DictPut(form, k, "v")
    /\ last' = [op |-> "submit"]
    /\ UNCHANGED <<fld, lst, obj, mgr>>

IdxExtract ==
    /\ \E id \in Prefixes :
          last' = [op |-> "extra_indices", id |-> id,
                   indices |-> extra_indices(id, form)]
    /\ UNCHANGED <<fld, lst, obj, mgr, form>>

NextIdx == IdxAddKey \/ IdxExtract

SpecIdx == InitIdx /\ [][NextIdx]_vars

\* the integers n such that some key starts with p + "." and its next
\* dot-delimited segment is the all-digit text of n
DottedIndexSet(p, keys) ==
    {ToInt(FirstSegment(SliceFrom(k, Len(p) + 1))) :
       k \in {n \in keys : /\ StartsWith(n, p \o <<".">>)
                           /\ IsDigit(FirstSegment(SliceFrom(n, Len(p) + 1)))}}

\* C5: the index extraction of a list with id p returns exactly the integers
\* n such that some key starts with p + "." and has the all-digit text of n as
\* its next segment, each once and in ascending order; a key that only starts
\* with p followed by another character contributes nothing.
C5_IndicesOfDottedKeys ==
    last.op = "extra_indices" =>
        last.indices = SortedSeq(DottedIndexSet(last.id, DOMAIN form))

(***************************************************************************)
(* SpecList: one Field List under load, process, add_item, iteration,      *)
(* clear and process_form_data.                                            *)
(***************************************************************************)
ListKey == <<"x">>

\* declared defaults of a list: none, the empty list, a non-empty list
ListDefaults == {<<>>, << <<>> >>, << <<"30">> >>}

\* values handed to FieldList.process: not a sequence, lists, and a tuple
ListInputs ==
    {<<>>, << <<>> >>, << <<"7">> >>, << <<"30", "John ">> >>,
     TupleOf(<<"7">>)}

\* the type of the list's items
ListItemType == "int"

\* flat keys of a submission: indexed keys of the list (one with a leading
\* zero), a key that only starts with the list's id, an unrelated key
ListKeys == {<<"x", ".", "0">>, <<"x", ".", "1">>, <<"x", ".", "3">>,
             <<"x", ".", "0", "1">>, <<"x", "y", "0">>, <<"z">>}
ListTexts == {"30", "John "}

ListForms ==
    UNION {[ks -> ListTexts] :
             ks \in {k \in SUBSET ListKeys : Cardinality(k) <= MaxKeys}}

InitList ==
    /\ \E default \in ListDefaults :
          lst = NewList(ListKey, ListKey, ListItemType, default)
    /\ fld = Unused /\ obj = Unused /\ mgr = Unused
    /\ form = EmptyDict
    /\ last = [op |-> "init"]

LstLoad ==
    /\ lst' = ListLoad(lst)
    /\ last' = [op |-> "load"]
    /\ UNCHANGED <<fld, obj, mgr, form>>

LstProcess ==
    /\ \E data \in ListInputs, suppress_error \in BOOLEAN :
          /\ lst' = ListProcess(lst, data, suppress_error)
          /\ last' = [op |-> "process", data |-> data,
                      suppress_error |-> suppress_error]
    /\ UNCHANGED <<fld, obj, mgr, form>>

LstAddItem ==
    /\ Len(lst.items) < MaxItems
    /\ \E l \in {ListAddItem(lst)} :
         /\ lst' = l
         /\ last' = [op |-> "add_item", before |-> Len(lst.items),
                     ret |-> l.items[Len(l.items)]]
    /\ UNCHANGED <<fld, obj, mgr, form>>

LstIter ==
    /\ lst' = ListIter(lst)
    /\ last' = [op |-> "iter", before |-> Len(lst.items)]
    /\ UNCHANGED <<fld, obj, mgr, form>>

LstClear ==
    /\ lst' = ListClear(lst)
    /\ last' = [op |-> "clear"]
    /\ UNCHANGED <<fld, obj, mgr, form>>

LstProcessFormData ==
    /\ \E fd \in ListForms :
          \E r \in {ListProcessFormData(lst, fd)} :
             /\ Len(r.field.items) <= MaxItems
             /\ lst' = r.field
             /\ last' = [op |-> "process_form_data", form |-> fd,
                         indices |-> extra_indices(lst.id, fd), res |-> r.res]
    /\ UNCHANGED <<fld, obj, mgr, form>>

NextList ==
    LstLoad \/ LstProcess \/ LstAddItem \/ LstIter \/ LstClear \/ LstProcessFormData

SpecList == InitList /\ [][NextList]_vars

\* the indices the submission of the last process_form_data carries under the
\* list's prefix, and the items that call built
SubmittedIndexSet == DottedIndexSet(lst.id, DOMAIN last.form)
BuiltItems ==
    SubSeq(lst.items, Len(lst.items) - Len(last.indices) + 1, Len(lst.items))
AllItemsValidate == \A i \in 1..Len(BuiltItems) : BuiltItems[i].errors = <<>>
SubmittedAt(index) == last.form[DotKey(lst.id, IntToStr(index))]

\* C6: process_form_data on a submission that carries the non-empty index set
\* I under the list's prefix and whose items all validate returns the typed
\* item values in ascending index order (|I| of them, no placeholder for a
\* gap), a raw-data mapping from each index written as a string to the raw
\* value submitted at that index, and no errors; each child is built at key
\* <list.id>.<index>.
C6_ListReconstruction ==
    (/\ last.op = "process_form_data"
     /\ SubmittedIndexSet # {}
     /\ AllItemsValidate) =>
        LET sorted == SortedSeq(SubmittedIndexSet)
            data == last.res.data[1][lst.alias]
            raw_data == last.res.raw_data[lst.alias]
        IN /\ data # <<>>
           /\ Len(data[1]) = Cardinality(SubmittedIndexSet)
           /\ \A i \in 1..Len(sorted) :
                 data[1][i] = EngineValidate(lst.item_type, SubmittedAt(sorted[i]),
                                             <<"body">>).v
           /\ DOMAIN raw_data = {IntToStr(n) : n \in SubmittedIndexSet}
           /\ \A n \in SubmittedIndexSet : raw_data[IntToStr(n)] = SubmittedAt(n)
           /\ last.res.errors = <<>>
           /\ Len(BuiltItems) = Len(sorted)
           /\ \A i \in 1..Len(sorted) :
                 BuiltItems[i].alias = DotKey(lst.id, IntToStr(sorted[i]))

\* two valid items submitted at indices 0 and 3
C6_Witness ==
    /\ last.op = "process_form_data"
    /\ last.indices = <<0, 3>>
    /\ AllItemsValidate
    /\ last.res.data[1][lst.alias] = << <<"#30", "#30">> >>

\* C7: after every process_form_data call, whatever items the list held
\* before it, the number of items equals the number of distinct indices found
\* under the list's prefix in the submitted keys.
C7_ItemCountIsIndexCount ==
    last.op = "process_form_data" => Len(lst.items) = Len(last.indices)

\* C8: with zero indices found, a list with a declared default returns that
\* default and no errors, and a list with no default returns exactly one error,
\* "Input must be a list", and no value; the error is produced in no other
\* case.
C8_ZeroIndexPolicy ==
    last.op = "process_form_data" =>
        LET errors == last.res.errors
            data == last.res.data[1][lst.alias]
            synthetic == \E i \in 1..Len(errors) :
                            errors[i][MsgKey] = "Input must be a list"
        IN IF Len(last.indices) = 0
           THEN IF lst.default # <<>>
                THEN data = lst.default /\ errors = <<>>
                ELSE /\ Len(errors) = 1
                     /\ errors[1][MsgKey] = "Input must be a list"
                     /\ data = <<>>
           ELSE ~synthetic

(***************************************************************************)
(* SpecObj: one Object Field with the children name (text) and age         *)
(* (integer) under load, process, clear and process_form_data.             *)
(***************************************************************************)
ObjectKey == <<"o">>
NameKey == <<"n">>
AgeKey == <<"g">>

\* the children of the object; age is declared with or without a default
ObjectChildSpecs(age_default) ==
    <<[name |-> NameKey, type |-> "str", default |-> None],
      [name |-> AgeKey, type |-> "int", default |-> age_default]>>

ObjectTexts == {"John ", "30", "7"}

\* flat submissions for the object: each child's key absent or present
ObjectForms ==
    UNION {[ks -> ObjectTexts] :
             ks \in SUBSET {DotKey(ObjectKey, NameKey), DotKey(ObjectKey, AgeKey)}}

\* mappings handed to ObjectField.process
ObjectInputs ==
    {<<>>, <<(NameKey :> "John ")>>,
     <<(NameKey :> "30") @@ (AgeKey :> "30")>>}

InitObj ==
    /\ \E age_default \in {None, "#7"} :
          obj = NewObject(ObjectKey, ObjectChildSpecs(age_default))
    /\ fld = Unused /\ lst = Unused /\ mgr = Unused
    /\ form = EmptyDict
    /\ last = [op |-> "init"]

ObjLoad ==
    /\ obj' = ObjectLoad(obj)
    /\ last' = [op |-> "load"]
    /\ UNCHANGED <<fld, lst, mgr, form>>

ObjProcess ==
    /\ \E data \in ObjectInputs, suppress_error \in BOOLEAN :
          /\ obj' = ObjectProcess(obj, data, suppress_error)
          /\ last' = [op |-> "process", data |-> data,
                      suppress_error |-> suppress_error]
    /\ UNCHANGED <<fld, lst, mgr, form>>

ObjClear ==
    /\ obj' = ObjectClear(obj)
    /\ last' = [op |-> "clear"]
    /\ UNCHANGED <<fld, lst, mgr, form>>

ObjProcessFormData ==
    /\ \E fd \in ObjectForms :
          \E r \in {ObjectProcessFormData(obj, fd)} :
             /\ obj' = r.field
             /\ last' = [op |-> "process_form_data", form |-> fd, res |-> r.res]
    /\ UNCHANGED <<fld, lst, mgr, form>>

NextObj == ObjLoad \/ ObjProcess \/ ObjClear \/ ObjProcessFormData

SpecObj == InitObj /\ [][NextObj]_vars

\* the children that returned errors to the last process_form_data, and the
\* ones that validated
FailedChildren(o) == {i \in 1..Len(o.fields) : o.fields[i].errors # <<>>}
ValidChildren(o) == {i \in 1..Len(o.fields) : o.fields[i].errors = <<>>}

\* C9: when process_form_data runs and at least one child fails while another
\* validates, the result's data under the object's name has an entry for every
\* child that validated (the typed value of its submission; for a text child
\* the submitted text as it is), the result's errors are non-empty and name
\* exactly the failing children, and the object's own value is what it was
\* before the call.
C9_PartialObjectResult ==
    [][(/\ last'.op = "process_form_data"
        /\ FailedChildren(obj') # {}
        /\ ValidChildren(obj') # {}) =>
          LET data == last'.res.data[1][obj.name][1]
              errors == last'.res.errors
          IN /\ \A i \in ValidChildren(obj') :
                   /\ obj.fields[i].name \in DOMAIN data
                   /\ data[obj.fields[i].name] = obj'.fields[i].value
                   /\ (obj.fields[i].type = "str" /\
                       obj.fields[i].alias \in DOMAIN last'.form) =>
                         data[obj.fields[i].name] = last'.form[obj.fields[i].alias]
             /\ Len(errors) > 0
             /\ \A e \in 1..Len(errors) :
                   DOMAIN errors[e][MsgKey] =
                      {obj.fields[i].name : i \in FailedChildren(obj')}
             /\ obj'.value = obj.value]_vars

\* the name validated with its whitespace kept, the age failed, and the object
\* kept the value of an earlier successful submission
C9_Witness ==
    /\ last.op = "process_form_data"
    /\ FailedChildren(obj) = {2}
    /\ last.res.data[1][obj.name][1][NameKey] = "John "
    /\ obj.value # <<>>

(***************************************************************************)
(* FormManager: the top-level fields, the aggregate value and error map.   *)
(***************************************************************************)
IsList(f) == "items" \in DOMAIN f
IsObject(f) == "fields" \in DOMAIN f

\* field.load() by field class
AnyLoad(f) ==
    IF IsList(f) THEN ListLoad(f)
    ELSE IF IsObject(f) THEN ObjectLoad(f) ELSE FieldLoad(f)

\* field.clear() by field class
AnyClear(f) ==
    IF IsList(f) THEN ListClear(f)
    ELSE IF IsObject(f) THEN ObjectClear(f) ELSE FieldClear(f)

\* field.process_form_data() by field class
AnyProcessFormData(f, fd) ==
    IF IsList(f) THEN ListProcessFormData(f, fd)
    ELSE IF IsObject(f) THEN ObjectProcessFormData(f, fd)
    ELSE FieldProcessFormData(f, fd)

\* FormManager.__init__: every resolver is loaded
NewManager(resolvers, validate_on_write) ==
    [fields |-> [i \in 1..Len(resolvers) |-> AnyLoad(resolvers[i])],
     errors |-> EmptyDict, value |-> <<>>, raw_data |-> <<>>,
     data |-> <<>>, obj |-> <<>>,
     validate_on_write |-> validate_on_write]

\* FormManager.clear
ManagerClear(m) ==
    [m EXCEPT !.fields = [i \in 1..Len(m.fields) |-> AnyClear(m.fields[i])]]

\* dict.update(e)
DictUpdate(d, e) ==
    [k \in (DOMAIN d) \cup (DOMAIN e) |-> IF k \in DOMAIN e THEN e[k] ELSE d[k]]

\* the accumulators of FormManager._process_form_fields_data before its loop
FieldsDataStart(m) ==
    [fields |-> m.fields, values |-> EmptyDict, errors |-> EmptyDict,
     raw_data |-> EmptyDict, returned |-> [i \in 1..Len(m.fields) |-> <<>>],
     raised |-> FALSE]

\* one pass of the loop of _process_form_fields_data: field i has returned r;
\* format_errors raises on an entry without "msg", and the loop ends there
FieldsDataStep(acc, i, r) ==
    LET f == acc.fields[i]
        res == r.res
        raised == res.errors # <<>> /\ FormatRaises(res.errors)
    IN [fields |-> [acc.fields EXCEPT ![i] = r.field],
        values |-> IF res.data # <<>>
                   THEN DictPut(acc.values, f.alias, res.data[1][f.name])
                   ELSE acc.values,
        errors |-> IF res.errors # <<>> /\ ~raised
                   THEN DictPut(acc.errors, f.name,
                                (IF f.name \in DOMAIN acc.errors
                                 THEN acc.errors[f.name] ELSE <<>>)
                                \o format_errors(res.errors))
                   ELSE acc.errors,
        raw_data |-> IF raised THEN acc.raw_data
                     ELSE DictUpdate(acc.raw_data, res.raw_data),
        returned |-> [acc.returned EXCEPT ![i] = res.errors],
        raised |-> raised]

RECURSIVE process_form_fields_data(_, _, _)
\* FormManager._process_form_fields_data (by_alias=True): the loop over the
\* fields from position i on.  acc holds the fields as processed so far, the
\* values, errors and raw data, the error list each field returned, and
\* whether format_errors raised.  Each result is computed once, as the one
\* element of a set, before the next pass reads it
process_form_fields_data(acc, i, fd) ==
    IF i > Len(acc.fields) \/ acc.raised THEN acc
    ELSE CHOOSE out \in
           {process_form_fields_data(a, i + 1, fd) :
              a \in {FieldsDataStep(acc, i, r) :
                       r \in {AnyProcessFormData(acc.fields[i], fd)}}} : TRUE

\* aliases of the form's fields
TextAlias == <<"A">>

\* the whole-record validation of the form's schema (external engine): every
\* field is looked up by its alias, and the schema's cross-field rule rejects
\* a record whose list holds the number written in its text field
FormRecordValidate(values) ==
    IF \E k \in {TextAlias, ListKey, ObjectKey} : k \notin DOMAIN values
    THEN [v |-> <<>>,
          errors |-> <<EngineError(<<FormKey>>, "Field required", "missing")>>]
    ELSE IF /\ values[ListKey] # <<>>
            /\ \E i \in 1..Len(values[ListKey][1]) :
                  values[ListKey][1][i] = IntTyped(values[TextAlias])
    THEN [v |-> <<>>,
          errors |-> <<EngineError(<<FormKey>>, "Value error, number is taken",
                                   "value_error")>>]
    ELSE [v |-> <<values>>, errors |-> <<>>]

\* FormManager.process_form after the fields' pass r: the manager afterwards;
\* whether the call raised; how many whole-record validations ran, on which
\* values; and the error list each field returned
ProcessFormOutcome(m, r) ==
    LET v == FormRecordValidate(r.values)
    IN IF r.raised
       THEN [mgr |-> [m EXCEPT !.fields = r.fields], raised |-> TRUE,
             validations |-> 0, values |-> r.values, returned |-> r.returned]
       ELSE IF DOMAIN r.errors = {}
       THEN [mgr |-> [m EXCEPT
                        !.fields = r.fields,
                        !.raw_data = <<r.raw_data>>,
                        !.value = IF v.errors = <<>> THEN v.v ELSE @,
                        !.errors = IF v.errors # <<>>
                                   THEN (FormKey :> format_errors(v.errors))
                                   ELSE @],
             raised |-> FALSE, validations |-> 1, values |-> r.values,
             returned |-> r.returned]
       ELSE [mgr |-> [m EXCEPT !.fields = r.fields,
                               !.raw_data = <<r.raw_data>>,
                               !.errors = r.errors],
             raised |-> FALSE, validations |-> 0, values |-> r.values,
             returned |-> r.returned]

\* FormManager.process_form
ProcessForm(m, fd) ==
    CHOOSE out \in
      {ProcessFormOutcome(m, r) :
         r \in {process_form_fields_data(FieldsDataStart(m), 1, fd)}} : TRUE

\* request methods, and str.lower() on them
Methods == {"GET", "POST", "PUT", "PATCH", "DELETE"}
Lower(method) ==
    CASE method = "GET" -> "get" [] method = "POST" -> "post"
      [] method = "PUT" -> "put" [] method = "PATCH" -> "patch"
      [] method = "DELETE" -> "delete"

\* the result of a validate call that did not run process_form
NotRun(m) ==
    [mgr |-> m, raised |-> FALSE, validations |-> 0, values |-> EmptyDict,
     returned |-> [i \in 1..Len(m.fields) |-> <<>>], ran |-> FALSE, ret |-> FALSE]

\* the result of a validate call that ran process_form with the outcome p
Ran(p) ==
    [mgr |-> p.mgr, raised |-> p.raised, validations |-> p.validations,
     values |-> p.values, returned |-> p.returned, ran |-> TRUE,
     ret |-> ~p.raised /\ DOMAIN p.mgr.errors = {}]

\* FormManager.validate_async with process_form run whatever the method
ValidateAsync_IgnoresMethod(m, method, fd) ==
    CHOOSE out \in {Ran(p) : p \in {ProcessForm(m, fd)}} : TRUE

\* FormManager.validate / validate_async on a request with the given method
\* and submission: the ProcessForm outcome, whether process_form ran, and the
\* returned boolean (none when the call raised)
ValidateAsync(m, method, fd) ==
    IF m.validate_on_write /\ Lower(method) \notin {"post", "patch", "put"}
    THEN NotRun(m)
    ELSE CHOOSE out \in {Ran(p) : p \in {ProcessForm(m, fd)}} : TRUE

(***************************************************************************)
(* Spec: one Form Manager over a text field (name "a", alias "A"), an      *)
(* Object Field and a Field List, used inline: every validate or           *)
(* process_form call reads the method and the submission of the request    *)
(* that is current when it is made.                                        *)
(***************************************************************************)
TextKey == <<"a">>

\* flat submissions: empty; all fields valid; all fields valid but the number
\* of the text field taken by the list; the object's required child missing;
\* a list item that is not a number; the text field missing and two list
\* items with a gap; the object's own cross-field rule broken
ManagerForms ==
    {EmptyDict,
     (TextAlias :> "John ") @@ (DotKey(ObjectKey, NameKey) :> "John ")
        @@ (DotKey(ListKey, <<"0">>) :> "30"),
     (TextAlias :> "30") @@ (DotKey(ObjectKey, NameKey) :> "John ")
        @@ (DotKey(ListKey, <<"0">>) :> "30"),
     (TextAlias :> "John ") @@ (DotKey(ListKey, <<"0">>) :> "30"),
     (TextAlias :> "John ") @@ (DotKey(ObjectKey, NameKey) :> "John ")
        @@ (DotKey(ListKey, <<"0">>) :> "John "),
     (DotKey(ObjectKey, NameKey) :> "John ")
        @@ (DotKey(ListKey, <<"0">>) :> "7") @@ (DotKey(ListKey, <<"2">>) :> "30"),
     (TextAlias :> "John ") @@ (DotKey(ObjectKey, NameKey) :> "7")
        @@ (DotKey(ListKey, <<"0">>) :> "30")}

\* the fields of the form, as declared
ManagerResolvers ==
    <<NewField(TextKey, TextAlias, "str", None),
      NewObject(ObjectKey, ObjectChildSpecs("#7")),
      NewList(ListKey, ListKey, ListItemType, <<>>)>>

\* the field holds what a submission left: a list its items, an object the
\* errors of its children, a leaf field a raw text, a value and a display data
Dirty(f) ==
    IF IsList(f) THEN f.items # <<>>
    ELSE IF IsObject(f) THEN DOMAIN f.errors # {}
    ELSE f.raw_data # None /\ f.value # None /\ DataOf(f) # None

\* no list of the manager holds more items than the model's bound
WithinItems(m) ==
    \A i \in 1..Len(m.fields) :
       IsList(m.fields[i]) => Len(m.fields[i].items) <= MaxItems

Init ==
    /\ \E validate_on_write \in BOOLEAN :
          mgr = NewManager(ManagerResolvers, validate_on_write)
    /\ fld = Unused /\ lst = Unused /\ obj = Unused
    /\ form = EmptyDict
    /\ last = [op |-> "init"]

MgrValidate ==
    /\ \E method \in Methods, fd \in ManagerForms :
          \E r \in {ValidateAsync(mgr, method, fd)} :
             /\ WithinItems(r.mgr)
             /\ mgr' = r.mgr
             /\ last' = [op |-> "validate", method |-> method, form |-> fd,
                         ran |-> r.ran, raised |-> r.raised, ret |-> r.ret,
                         validations |-> r.validations, values |-> r.values,
                         returned |-> r.returned]
    /\ UNCHANGED <<fld, lst, obj, form>>

MgrProcessForm ==
    /\ \E fd \in ManagerForms :
          \E r \in {ProcessForm(mgr, fd)} :
             /\ WithinItems(r.mgr)
             /\ mgr' = r.mgr
             /\ last' = [op |-> "process_form", method |-> None, form |-> fd,
                         ran |-> TRUE, raised |-> r.raised, ret |-> FALSE,
                         validations |-> r.validations, values |-> r.values,
                         returned |-> r.returned]
    /\ UNCHANGED <<fld, lst, obj, form>>

MgrClear ==
    /\ mgr' = ManagerClear(mgr)
    /\ last' = [op |-> "clear",
                dirty |-> {i \in 1..Len(mgr.fields) : Dirty(mgr.fields[i])}]
    /\ UNCHANGED <<fld, lst, obj, form>>

Next == MgrValidate \/ MgrProcessForm \/ MgrClear

Spec == Init /\ [][Next]_vars

\* the last step ran process_form and it returned
Processed(l) == l.op \in {"validate", "process_form"} /\ l.ran /\ ~l.raised

\* the top-level fields whose process_form_data returned errors to that step
Failing(l) == {i \in 1..Len(l.returned) : l.returned[i] # <<>>}

\* C1: after a validate or process_form call in which process_form ran to
\* completion, whatever the request method and the earlier calls on the
\* manager, exactly one of these holds: the manager's value is not None, or
\* its errors map is non-empty.
C1_ValueXorErrors ==
    Processed(last) => ((mgr.value # <<>>) # (DOMAIN mgr.errors # {}))

\* C2: when process_form runs and at least one top-level field returns
\* errors, the whole-record validation is not run, the manager's value is
\* what it was before the call, and the manager's errors map has exactly one
\* key per failing field, its name, holding the messages of the errors that
\* field returned, and no "form" key.
C2_FieldErrorsReported ==
    [][(/\ last'.op \in {"validate", "process_form"}
        /\ last'.ran
        /\ Failing(last') # {}) =>
          /\ last'.validations = 0
          /\ mgr'.value = mgr.value
          /\ DOMAIN mgr'.errors = {mgr.fields[i].name : i \in Failing(last')}
          /\ FormKey \notin DOMAIN mgr'.errors
          /\ \A i \in Failing(last') :
                LET returned == last'.returned[i]
                    messages == mgr'.errors[mgr.fields[i].name]
                IN /\ Len(messages) = Len(returned)
                   /\ \A j \in 1..Len(returned) :
                         /\ MsgKey \in DOMAIN returned[j]
                         /\ messages[j] = returned[j][MsgKey]]_vars

\* C3: when process_form runs and no top-level field returns errors, one
\* whole-record validation is run on the values keyed by each field's alias;
\* if it succeeds value becomes the typed record and errors is empty; if it
\* fails errors is exactly {"form": messages} and value is what it was.
C3_WholeRecordOutcome ==
    [][(/\ last'.op \in {"validate", "process_form"}
        /\ last'.ran
        /\ Failing(last') = {}) =>
          LET r == FormRecordValidate(last'.values)
          IN /\ last'.validations = 1
             /\ DOMAIN last'.values =
                   {mgr.fields[i].alias : i \in 1..Len(mgr.fields)}
             /\ IF r.errors = <<>>
                THEN mgr'.value = r.v /\ DOMAIN mgr'.errors = {}
                ELSE /\ mgr'.errors = (FormKey :> format_errors(r.errors))
                     /\ mgr'.value = mgr.value]_vars

\* C4: validate with validate_on_write true on a method other than post,
\* patch and put returns false and leaves the manager and every field as
\* they were; otherwise process_form is run, and a call that returns gives
\* true exactly when the errors map is empty afterwards.
C4_ValidateOnWrite ==
    [][last'.op = "validate" =>
         IF mgr.validate_on_write /\ last'.method \notin {"POST", "PATCH", "PUT"}
         THEN ~last'.ret /\ ~last'.ran /\ mgr' = mgr
         ELSE /\ last'.ran
              /\ ~last'.raised => (last'.ret <=> DOMAIN mgr'.errors = {})]_vars

\* a read request on a manager that holds the value, the raw data and the
\* list items of an earlier valid write request
C4_Witness ==
    /\ last.op = "validate"
    /\ mgr.validate_on_write
    /\ last.method = "GET"
    /\ ~last.ran /\ ~last.ret
    /\ mgr.value # <<>>
    /\ mgr.raw_data # <<>>
    /\ \E i \in 1..Len(mgr.fields) :
          IsList(mgr.fields[i]) /\ Len(mgr.fields[i].items) > 0

(***************************************************************************)
(* ChoiceField: a field restricted to declared tokens, single- or          *)
(* multi-valued.  Its values are tagged so that a scalar, a list and a     *)
(* tuple can stand in the same place: Sc(x), Li(xs), Tu(xs).               *)
(***************************************************************************)
Sc(x) == [kind |-> "scalar", s |-> x, items |-> <<>>]
Li(xs) == [kind |-> "list", s |-> "", items |-> xs]
Tu(xs) == [kind |-> "tuple", s |-> "", items |-> xs]

\* a message with the tokens it lists
Msg(text, tokens) == [text |-> text, tokens |-> tokens]

\* the number of declared tokens a membership error lists
ShownTokens == 10

\* self._choice_values[:10]
FirstTokens(choices) ==
    SubSeq(choices, 1, IF Len(choices) < ShownTokens THEN Len(choices)
                       ELSE ShownTokens)

\* str.strip() on the texts of the model
Strip(x) == CASE x = "  " -> "" [] x = " a " -> "a" [] OTHER -> x

\* v in self._choice_values
InChoices(x, choices) == \E i \in 1..Len(choices) : choices[i] = x

\* Python falsiness of a submitted value: None, "", [] and ()
Falsy(v) == IF v.kind = "scalar" THEN ~Truthy(v.s) ELSE v.items = <<>>

\* self._coerce_type(x) for str and int: the result, or a failure
coerce_type(ct, x) ==
    CASE ct = "str" ->
           [ok |-> TRUE, v |-> IF x \in IntValues
                               THEN CHOOSE r \in IntTexts : IntTyped(r) = x
                               ELSE x]
      [] ct = "int" ->
           IF x \in IntValues THEN [ok |-> TRUE, v |-> x]
           ELSE IF x \in IntTexts THEN [ok |-> TRUE, v |-> IntTyped(x)]
           ELSE [ok |-> FALSE, v |-> None]

\* ChoiceField.field_after_for_multiple_form_validation_action: the value
\* returned, or the message of the ValueError raised
field_after_for_multiple_form_validation_action(f, v) ==
    IF Falsy(v) /\ ~f.required THEN [v |-> v, raised |-> <<>>]
    ELSE IF v.kind # "list"
    THEN [v |-> v, raised |-> <<Msg("Expected a list of values", <<>>)>>]
    ELSE IF \E i \in 1..Len(v.items) : ~InChoices(v.items[i], f.choices)
    THEN [v |-> v,
          raised |-> <<Msg("Input should be in", FirstTokens(f.choices))>>]
    ELSE [v |-> v, raised |-> <<>>]

\* ChoiceField.field_after_form_validation_action with every token accepted
field_after_form_validation_action_NoMembership(f, v) ==
    IF f.multiple THEN field_after_for_multiple_form_validation_action(f, v)
    ELSE IF Strip(v.s) = "" /\ ~f.required THEN [v |-> Sc(""), raised |-> <<>>]
    ELSE [v |-> v, raised |-> <<>>]

\* ChoiceField.field_after_form_validation_action (v is a string when the
\* field is single-valued)
field_after_form_validation_action(f, v) ==
    IF f.multiple THEN field_after_for_multiple_form_validation_action(f, v)
    ELSE IF Strip(v.s) = "" /\ ~f.required THEN [v |-> Sc(""), raised |-> <<>>]
    ELSE IF ~InChoices(v.s, f.choices)
    THEN [v |-> v,
          raised |-> <<Msg("Input should be in", FirstTokens(f.choices))>>]
    ELSE [v |-> v, raised |-> <<>>]

\* the engine's validation of a value against the annotation of a choice
\* field (str, List[str] or Tuple[str, ...]), before any hook of the field
ChoiceTypeValidate(annotation, v) ==
    LET texts == \A i \in 1..Len(v.items) :
                    v.items[i] # None /\ v.items[i] \notin IntValues
    IN CASE annotation = "str" ->
              IF v.kind = "scalar" /\ v.s # None /\ v.s \notin IntValues
              THEN [v |-> v, errors |-> <<>>]
              ELSE [v |-> Sc(None),
                    errors |-> <<Msg("Input should be a valid string", <<>>)>>]
         [] annotation = "list" ->
              IF v.kind = "scalar"
              THEN [v |-> Sc(None),
                    errors |-> <<Msg("Input should be a valid list", <<>>)>>]
              ELSE IF texts THEN [v |-> Li(v.items), errors |-> <<>>]
              ELSE [v |-> Sc(None),
                    errors |-> <<Msg("Input should be a valid string", <<>>)>>]
         [] annotation = "tuple" ->
              IF v.kind = "scalar"
              THEN [v |-> Sc(None),
                    errors |-> <<Msg("Input should be a valid tuple", <<>>)>>]
              ELSE IF texts THEN [v |-> Tu(v.items), errors |-> <<>>]
              ELSE [v |-> Sc(None),
                    errors |-> <<Msg("Input should be a valid string", <<>>)>>]

\* ModelField.validate on a choice field: the annotation's validation, then
\* FieldBase._form_after_validator, which returns the value as it is in
\* direct processing and runs field_after_validation otherwise
ChoiceValidate(f, v, processing_data) ==
    LET r == ChoiceTypeValidate(f.annotation, v)
        a == field_after_form_validation_action(f, r.v)
    IN IF r.errors # <<>> \/ processing_data THEN r
       ELSE IF a.raised # <<>>
       THEN [v |-> Sc(None),
             errors |-> <<Msg("Value error, " \o a.raised[1].text,
                              a.raised[1].tokens)>>]
       ELSE [v |-> a.v, errors |-> <<>>]

\* a ChoiceField before any processing: ChoiceField.__init__ normalises the
\* choices, and multiple is whether the annotation is a sequence
BlankChoice(annotation, required, default, choices, ct) ==
    [annotation |-> annotation, multiple |-> (annotation # "str"),
     required |-> required, default |-> default, choices |-> choices,
     coerce_type |-> ct,
     value |-> Sc(None), data |-> Sc(None), raw_data |-> Sc(None),
     errors |-> <<>>]

\* FieldBase.process on a choice field: direct processing, which skips
\* field_after_validation; the serialised form of a string or a list of
\* strings is the value itself
ChoiceProcess(f, data, suppress_error) ==
    LET r == ChoiceValidate(f, data, TRUE)
    IN [f EXCEPT !.value = IF r.errors = <<>> THEN r.v ELSE @,
                 !.data = IF r.errors = <<>> THEN r.v ELSE @,
                 !.errors = IF suppress_error THEN <<>> ELSE r.errors]

\* FieldBase.load on a choice field
ChoiceLoad(f) == ChoiceProcess(f, f.default, TRUE)

\* FieldBase.clear on a choice field
ChoiceClear(f) ==
    [f EXCEPT !.value = Sc(None), !.data = Sc(None), !.raw_data = Sc(None),
              !.errors = <<>>]

\* construction: the default setter processes the default, then stores it
NewChoice(annotation, required, default, choices, ct) ==
    ChoiceProcess(BlankChoice(annotation, required, default, choices, ct),
                  default, TRUE)

\* FormParameterResolver.resolve on a choice field: a missing or empty
\* submission is an error when required and the default otherwise; any other
\* submission is validated in form mode, field_after_validation included
ChoiceResolve(f, submitted) ==
    IF Falsy(submitted)
    THEN IF f.required
         THEN [data |-> Sc(None), errors |-> <<Msg("Field required", <<>>)>>,
               raw_data |-> submitted]
         ELSE [data |-> f.default, errors |-> <<>>, raw_data |-> submitted]
    ELSE LET r == ChoiceValidate(f, submitted, FALSE)
         IN [data |-> r.v, errors |-> r.errors, raw_data |-> submitted]

\* FieldBase.process_form_data on a choice field: the resolver's result and
\* the field afterwards
ChoiceProcessFormData(f, submitted) ==
    LET res == ChoiceResolve(f, submitted)
    IN [res |-> res,
        field |-> [f EXCEPT !.raw_data = res.raw_data,
                            !.errors = res.errors,
                            !.value = IF res.errors = <<>> THEN res.data
                                      ELSE @]]

(***************************************************************************)
(* SpecChoice: one choice field of any declared configuration, processed   *)
(* directly, through a submission, loaded, cleared, and its                *)
(* field_after_validation hook called on its own.                          *)
(***************************************************************************)
StringChoices == <<"a", "b">>
IntChoices == <<"#30", "#7">>
LongChoices == <<"t01", "t02", "t03", "t04", "t05", "t06", "t07", "t08",
                 "t09", "t10", "t11">>
ChoiceSets == {StringChoices, IntChoices, LongChoices}
Annotations == {"str", "list", "tuple"}
CoerceTypes == {"str", "int"}

\* the values handed to a choice field
ChoiceInputs ==
    {Sc(None), Sc(""), Sc("  "), Sc("a"), Sc("c"), Sc("30"), Sc("#30"),
     Sc("t11"), Li(<<>>), Li(<<"a", "b">>), Li(<<"a", "c", "d">>),
     Li(<<"30">>), Tu(<<"a", "b">>)}

\* what a form can carry for the field: one text (or nothing) when it is
\* single-valued, the list of the texts under its alias otherwise
ChoiceSubmissions(f) ==
    {v \in ChoiceInputs :
        IF f.multiple THEN v.kind = "list"
        ELSE v.kind = "scalar" /\ v.s \notin IntValues}

\* the default of a field that is not required: the first declared token, or
\* the empty list of a multi-valued field
ChoiceDefault(annotation, required, choices) ==
    IF required THEN Sc(None)
    ELSE IF annotation = "str" THEN Sc(choices[1]) ELSE Li(<<>>)

NoCall ==
    [op |-> "init", v |-> Sc(None), suppress_error |-> TRUE,
     raised |-> <<>>, out |-> Sc(None)]

InitChoice ==
    /\ \E annotation \in Annotations, required \in BOOLEAN,
          choices \in ChoiceSets, ct \in CoerceTypes :
          \* an integer coerce_type goes with integer tokens
          /\ ct = "int" => choices = IntChoices
          /\ fld = NewChoice(annotation, required,
                             ChoiceDefault(annotation, required, choices),
                             choices, ct)
    /\ last = NoCall
    /\ lst = Unused /\ obj = Unused /\ mgr = Unused /\ form = Unused

\* field.process(data, suppress_error)
ChProcess ==
    \E data \in ChoiceInputs, suppress_error \in BOOLEAN :
        /\ fld' = ChoiceProcess(fld, data, suppress_error)
        /\ last' = [NoCall EXCEPT !.op = "process", !.v = data,
                                  !.suppress_error = suppress_error]
        /\ UNCHANGED <<lst, obj, mgr, form>>

\* field.load()
ChLoad ==
    /\ fld' = ChoiceLoad(fld)
    /\ last' = [NoCall EXCEPT !.op = "load", !.v = fld.default]
    /\ UNCHANGED <<lst, obj, mgr, form>>

\* field.clear()
ChClear ==
    /\ fld' = ChoiceClear(fld)
    /\ last' = [NoCall EXCEPT !.op = "clear"]
    /\ UNCHANGED <<lst, obj, mgr, form>>

\* await field.process_form_data(ctx, body)
ChProcessFormData ==
    \E submitted \in ChoiceSubmissions(fld) :
      \E r \in {ChoiceProcessFormData(fld, submitted)} :
        /\ fld' = r.field
        /\ last' = [NoCall EXCEPT !.op = "process_form_data",
                                  !.v = submitted, !.raised = r.res.errors,
                                  !.out = r.res.data]
        /\ UNCHANGED <<lst, obj, mgr, form>>

\* field.field_after_validation(v, None); a single-valued field is handed a
\* string, as the annotation guarantees
ChAfterValidation ==
    \E v \in ChoiceInputs :
      \E a \in {field_after_form_validation_action(fld, v)} :
        /\ fld.multiple \/ (v.kind = "scalar" /\ v.s # None
                            /\ v.s \notin IntValues)
        /\ last' = [NoCall EXCEPT !.op = "field_after_validation", !.v = v,
                                  !.raised = a.raised, !.out = a.v]
        /\ UNCHANGED <<fld, lst, obj, mgr, form>>

NextChoice ==
    ChProcess \/ ChLoad \/ ChClear \/ ChProcessFormData \/ ChAfterValidation

SpecChoice == InitChoice /\ [][NextChoice]_vars

\* the value t handed to the last call is a declared token of the field
DeclaredToken(f, l) == l.v.kind = "scalar" /\ InChoices(l.v.s, f.choices)

\* C13: for every choice field and every declared token t,
\* process(t, suppress_error=False) leaves errors empty and the value equal
\* to t once both are normalised by the field's coerce_type.
C13_DeclaredTokenRoundTrip ==
    [][(/\ last'.op = "process" /\ ~last'.suppress_error
        /\ DeclaredToken(fld, last'))
       => /\ fld'.errors = <<>>
          /\ fld'.value.kind = "scalar"
          /\ coerce_type(fld.coerce_type, fld'.value.s)
               = coerce_type(fld.coerce_type, last'.v.s)]_vars

\* the same round trip, for single-valued fields whose tokens are strings
C13_StringTokensOnly ==
    [][(/\ last'.op = "process" /\ ~last'.suppress_error
        /\ DeclaredToken(fld, last')
        /\ ~fld.multiple /\ fld.choices # IntChoices)
       => /\ fld'.errors = <<>>
          /\ fld'.value = last'.v]_vars

\* v is a declared token of a single-valued field, a sequence of declared
\* tokens of a multi-valued one, or the empty selection of a field that is
\* not required
DeclaredSelection(f, v) ==
    IF f.multiple
    THEN /\ v.kind # "scalar"
         /\ \A i \in 1..Len(v.items) : InChoices(v.items[i], f.choices)
         /\ v.items = <<>> => ~f.required
    ELSE /\ v.kind = "scalar"
         /\ InChoices(v.s, f.choices) \/ (v.s = "" /\ ~f.required)

\* C14 (as stated): after any sequence of process, process_form_data and
\* load on a choice field, a value that is set is a declared token, a
\* sequence of declared tokens, or the empty selection of a field that is not
\* required.
C14_ValueIsDeclared == fld.value # Sc(None) => DeclaredSelection(fld, fld.value)

\* C14 (amended): a submission that carries a value and that
\* process_form_data accepts leaves a declared selection as the value
\* (direct processing checks the type only).
C14_AcceptedSubmissionIsDeclared ==
    [][(/\ last'.op = "process_form_data" /\ ~Falsy(last'.v)
        /\ fld'.errors = <<>>)
       => /\ fld'.value # Sc(None)
          /\ DeclaredSelection(fld, fld'.value)]_vars

\* a submitted declared token was accepted over a value that direct
\* processing had set to an undeclared one
C14_Witness ==
    /\ last.op = "process_form_data" /\ last.v = Sc("a")
    /\ fld.errors = <<>> /\ fld.value = Sc("a") /\ fld.data = Sc("c")

\* the last call ran the post-validation of a single-valued field on v: the
\* hook called on its own, or a submission that reached it
SinglePostValidation(f, l) ==
    /\ ~f.multiple
    /\ \/ l.op = "field_after_validation"
       \/ l.op = "process_form_data" /\ ~Falsy(l.v)

\* the token equals a declared token once coerce_type is applied to it
CoercedInChoices(f, x) ==
    /\ coerce_type(f.coerce_type, x).ok
    /\ InChoices(coerce_type(f.coerce_type, x).v, f.choices)

\* the membership message, with or without the engine's prefix
MembershipMessage(f, raised) ==
    /\ Len(raised) = 1
    /\ raised[1].text \in {"Input should be in",
                           "Value error, Input should be in"}
    /\ raised[1].tokens = FirstTokens(f.choices)

\* C15 (as stated): post-validation of a single-valued choice field accepts
\* a token that is blank once stripped as "" when the field is not required;
\* otherwise it accepts the token if and only if coerce_type of the token
\* equals a declared token, and fails with "Input should be in" and the
\* first 10 declared tokens if not.
C15_SingleCoercedMembership ==
    [][SinglePostValidation(fld, last') =>
         IF Strip(last'.v.s) = "" /\ ~fld.required
         THEN last'.raised = <<>> /\ last'.out = Sc("")
         ELSE IF CoercedInChoices(fld, last'.v.s)
         THEN last'.raised = <<>> /\ last'.out = last'.v
         ELSE MembershipMessage(fld, last'.raised)]_vars

\* the same policy with the token compared as it is, no conversion applied
C15_SingleExactMembership ==
    [][SinglePostValidation(fld, last') =>
         IF Strip(last'.v.s) = "" /\ ~fld.required
         THEN last'.raised = <<>> /\ last'.out = Sc("")
         ELSE IF InChoices(last'.v.s, fld.choices)
         THEN last'.raised = <<>> /\ last'.out = last'.v
         ELSE MembershipMessage(fld, last'.raised)]_vars

\* the last call ran the post-validation of a multi-valued field: the hook
\* called on its own, or a submission whose value passed the annotation
MultiPostValidation(f, l) ==
    /\ f.multiple
    /\ \/ l.op = "field_after_validation"
       \/ /\ l.op = "process_form_data" /\ ~Falsy(l.v)
          /\ ChoiceTypeValidate(f.annotation, l.v).errors = <<>>

\* the value the post-validation was handed
PostValidated(f, l) ==
    IF l.op = "field_after_validation" THEN l.v
    ELSE ChoiceTypeValidate(f.annotation, l.v).v

AllDeclared(f, v) ==
    \A i \in 1..Len(v.items) : InChoices(v.items[i], f.choices)

ExpectedAList(raised) ==
    /\ Len(raised) = 1
    /\ raised[1].text \in {"Expected a list of values",
                           "Value error, Expected a list of values"}

\* C16 (as stated): post-validation of a multi-valued choice field accepts a
\* falsy value unchanged when the field is not required; otherwise a value
\* that is not a sequence fails with "Expected a list of values", a sequence
\* of declared tokens is accepted unchanged, and a sequence with an
\* undeclared element fails with one "Input should be in" message.
C16_MultiSequenceMembership ==
    [][MultiPostValidation(fld, last') =>
         \E v \in {PostValidated(fld, last')} :
           IF Falsy(v) /\ ~fld.required
           THEN last'.raised = <<>> /\ last'.out = v
           ELSE IF v.kind = "scalar" THEN ExpectedAList(last'.raised)
           ELSE IF AllDeclared(fld, v)
           THEN last'.raised = <<>> /\ last'.out = v
           ELSE MembershipMessage(fld, last'.raised)]_vars

\* the same policy with "a list" for "a sequence": a tuple is refused
C16_MultiListMembership ==
    [][MultiPostValidation(fld, last') =>
         \E v \in {PostValidated(fld, last')} :
           IF Falsy(v) /\ ~fld.required
           THEN last'.raised = <<>> /\ last'.out = v
           ELSE IF v.kind # "list" THEN ExpectedAList(last'.raised)
           ELSE IF AllDeclared(fld, v)
           THEN last'.raised = <<>> /\ last'.out = v
           ELSE MembershipMessage(fld, last'.raised)]_vars

\* the last step was a validate that ran process_form and returned false
FailedValidate(l) == l.op = "validate" /\ l.ran /\ ~l.raised /\ ~l.ret

\* the submission holds something under the key of the field
Submitted(f, fd) ==
    IF IsList(f) THEN extra_indices(f.id, fd) # <<>>
    ELSE IF IsObject(f)
    THEN \E j \in 1..Len(f.fields) : FormGet(fd, f.fields[j].alias) # None
    ELSE FormGet(fd, f.alias) # None

\* a leaf field shows what the submission holds under its alias
LeafRetains(f, fd) ==
    /\ f.raw_data = FormGet(fd, f.alias)
    /\ FormGet(fd, f.alias) \notin {None, ""} => DataOf(f) = FormGet(fd, f.alias)

\* C17 (as stated): after a failed validate, every field of the form tree,
\* leaf, object or list, still exposes what was submitted under its key: a
\* leaf its text, an object or a list with submitted entries a raw_data and
\* a display data that are not empty.
C17_SubmittedDataRetained ==
    FailedValidate(last) =>
       \A i \in 1..Len(mgr.fields) :
          \E f \in {mgr.fields[i]} :
             IF IsList(f) \/ IsObject(f)
             THEN Submitted(f, last.form) =>
                     f.raw_data # None /\ DataOf(f) # None
             ELSE LeafRetains(f, last.form)

\* the leaves of the tree do retain it: the top-level leaf fields, the
\* children of an object and the list items built from the submission
C17_LeavesRetained ==
    FailedValidate(last) =>
       \A i \in 1..Len(mgr.fields) :
          \E f \in {mgr.fields[i]} :
             IF IsList(f)
             THEN \E n \in {Len(extra_indices(f.id, last.form))} :
                    \A j \in (Len(f.items) - n + 1)..Len(f.items) :
                       LeafRetains(f.items[j], last.form)
             ELSE IF IsObject(f)
             THEN \A j \in 1..Len(f.fields) :
                     LeafRetains(f.fields[j], last.form)
             ELSE LeafRetains(f, last.form)

(***************************************************************************)
(* FormManager.populate_form: pre-fill the fields from an object or a      *)
(* mapping.  obj and data are <<>> for None and <<mapping>> otherwise; the *)
(* value of a list is <<>> or <<items>>, that of an object <<>> or         *)
(* <<mapping>>, that of a leaf field a text or None.                       *)
(***************************************************************************)
\* Python None in the encoding of the field's class
Absent(f) == IF IsList(f) \/ IsObject(f) THEN <<>> ELSE None

\* the loop's choice: getattr(obj, name) if obj is not None and has it,
\* else kwargs[name] if present, else None
PopulateChoice(f, o, kwargs) ==
    IF o # <<>> /\ f.name \in DOMAIN o[1] THEN o[1][f.name]
    ELSE IF f.name \in DOMAIN kwargs THEN kwargs[f.name]
    ELSE Absent(f)

\* FieldList.process and ObjectField.process take **kwargs; FieldBase.process
\* takes (data, suppress_error) only, so the keyword field_context is a
\* TypeError there
AcceptsKeywords(f) == IsList(f) \/ IsObject(f)

\* field.process(data, suppress_error) by field class
AnyProcess(f, data, suppress_error) ==
    IF IsList(f) THEN ListProcess(f, data, suppress_error)
    ELSE IF IsObject(f) THEN ObjectProcess(f, data, suppress_error)
    ELSE FieldProcess(f, data, suppress_error)

\* FormManager.populate_form(obj, data): _obj and _data are stored, then the
\* fields are visited in order and each is processed with
\* field.process(data, suppress_error=True, field_context=field_context);
\* the loop ends at the first field whose process raises
populate_form(m, o, data) ==
    LET n == Len(m.fields)
        kwargs == IF data = <<>> THEN EmptyDict ELSE data[1]
        stop == IF \E i \in 1..n : ~AcceptsKeywords(m.fields[i])
                THEN CHOOSE i \in 1..n :
                        /\ ~AcceptsKeywords(m.fields[i])
                        /\ \A j \in 1..(i - 1) : AcceptsKeywords(m.fields[j])
                ELSE n + 1
    IN [mgr |-> [m EXCEPT !.obj = o, !.data = data,
                          !.fields = [i \in 1..n |->
                             IF i < stop
                             THEN AnyProcess(@[i],
                                             PopulateChoice(@[i], o, kwargs),
                                             TRUE)
                             ELSE @[i]]],
        raised |-> stop <= n,
        calls |-> [i \in 1..n |-> IF i < stop THEN 1 ELSE 0]]

(***************************************************************************)
(* SpecPopulate: a manager over forms with and without leaf fields,        *)
(* pre-filled, and given submissions in between.                           *)
(***************************************************************************)
\* the declared fields of the forms: leaf first, leaf last, no leaf
PopulateResolvers ==
    {ManagerResolvers,
     <<NewList(ListKey, ListKey, ListItemType, <<>>),
       NewObject(ObjectKey, ObjectChildSpecs("#7")),
       NewField(TextKey, TextAlias, "str", None)>>,
     <<NewObject(ObjectKey, ObjectChildSpecs("#7")),
       NewList(ListKey, ListKey, ListItemType, <<>>)>>}

\* data mappings by field name: None, every field, the list only
PopulateData ==
    {<<>>,
     <<(TextKey :> "John ") @@ (ObjectKey :> <<(NameKey :> "John ")>>)
         @@ (ListKey :> << <<"30", "7">> >>)>>,
     <<(ListKey :> << <<"30", "John ">> >>)>>}

\* objects by attribute: None, one with the list only, one with the object
PopulateObjects ==
    {<<>>,
     <<(ListKey :> << <<"7">> >>)>>,
     <<(ObjectKey :> <<(NameKey :> "30") @@ (AgeKey :> "30")>>)>>}

\* submissions in between
PopulateForms ==
    {(TextAlias :> "John ") @@ (DotKey(ObjectKey, NameKey) :> "John ")
        @@ (DotKey(ListKey, <<"0">>) :> "30"),
     (TextAlias :> "John ") @@ (DotKey(ListKey, <<"0">>) :> "John ")}

InitPopulate ==
    /\ \E resolvers \in PopulateResolvers : mgr = NewManager(resolvers, FALSE)
    /\ fld = Unused /\ lst = Unused /\ obj = Unused
    /\ form = EmptyDict
    /\ last = [op |-> "init"]

\* form.populate_form(obj, data)
PopPopulateForm ==
    /\ \E o \in PopulateObjects, data \in PopulateData :
          \E r \in {populate_form(mgr, o, data)} :
             /\ mgr' = r.mgr
             /\ last' = [op |-> "populate_form", obj |-> o, data |-> data,
                         raised |-> r.raised, calls |-> r.calls]
    /\ UNCHANGED <<fld, lst, obj, form>>

\* form.process_form() on a submission
PopProcessForm ==
    /\ \E fd \in PopulateForms :
          \E r \in {ProcessForm(mgr, fd)} :
             /\ WithinItems(r.mgr)
             /\ mgr' = r.mgr
             /\ last' = [op |-> "process_form", raised |-> r.raised]
    /\ UNCHANGED <<fld, lst, obj, form>>

\* form.clear()
PopClear ==
    /\ mgr' = ManagerClear(mgr)
    /\ last' = [op |-> "clear"]
    /\ UNCHANGED <<fld, lst, obj, form>>

NextPopulate == PopPopulateForm \/ PopProcessForm \/ PopClear

SpecPopulate == InitPopulate /\ [][NextPopulate]_vars

\* the errors of a field are empty, whatever its class
NoErrors(f) == IF IsObject(f) THEN DOMAIN f.errors = {} ELSE f.errors = <<>>

\* C18: populate_form(obj, data) completes without raising for every form,
\* calls each top-level field's process once, errors suppressed, on the
\* value chosen by precedence (obj's attribute, else data[name], else None);
\* afterwards every field's errors is empty, the manager's data is the given
\* mapping, and its value and errors are unchanged.
C18_PopulateForm ==
    [][last'.op = "populate_form" =>
         /\ ~last'.raised
         /\ \A i \in 1..Len(mgr.fields) :
               /\ last'.calls[i] = 1
               /\ mgr'.fields[i] =
                     AnyProcess(mgr.fields[i],
                                PopulateChoice(mgr.fields[i], last'.obj,
                                               IF last'.data = <<>>
                                               THEN EmptyDict
                                               ELSE last'.data[1]),
                                TRUE)
               /\ NoErrors(mgr'.fields[i])
         /\ mgr'.data = last'.data
         /\ mgr'.value = mgr.value
         /\ mgr'.errors = mgr.errors]_vars

\* on a form without leaf fields the call completes, each field is processed
\* once on the chosen value, and the manager's data, value and errors are as
\* claimed
C18_CompositeFieldsOnly ==
    [][(/\ last'.op = "populate_form"
        /\ \A i \in 1..Len(mgr.fields) : AcceptsKeywords(mgr.fields[i])) =>
         /\ ~last'.raised
         /\ \A i \in 1..Len(mgr.fields) :
               /\ last'.calls[i] = 1
               /\ mgr'.fields[i] =
                     AnyProcess(mgr.fields[i],
                                PopulateChoice(mgr.fields[i], last'.obj,
                                               IF last'.data = <<>>
                                               THEN EmptyDict
                                               ELSE last'.data[1]),
                                TRUE)
         /\ mgr'.data = last'.data
         /\ mgr'.value = mgr.value
         /\ mgr'.errors = mgr.errors]_vars

\* raw_data, display data and value are None and errors is empty
Cleared(f) ==
    /\ f.raw_data = None /\ f.data = None /\ DataOf(f) = None
    /\ IF IsObject(f) THEN f.value = <<>> ELSE f.value = None
    /\ NoErrors(f)

\* C19: clear() on a field in any state sets raw_data, display data and
\* value to None and errors to the empty list, leaves default, name and id
\* as they were, and on a Field List removes every item.
C19_Clear ==
    [][last'.op = "clear" =>
         \A i \in 1..Len(mgr.fields) :
            /\ Cleared(mgr'.fields[i])
            /\ mgr'.fields[i].default = mgr.fields[i].default
            /\ mgr'.fields[i].name = mgr.fields[i].name
            /\ mgr'.fields[i].id = mgr.fields[i].id
            /\ IsList(mgr.fields[i]) => mgr'.fields[i].items = <<>>]_vars

\* a leaf field with a text, a value and a display data, an object with
\* errors and a list with items have all been cleared
C19_Witness ==
    /\ last.op = "clear" /\ last.dirty = {1, 2, 3}
    /\ \A i \in 1..Len(mgr.fields) : Cleared(mgr.fields[i])

\* C20: load() on a field in any state clears the transient state and then
\* processes the default with errors suppressed: afterwards raw_data and
\* errors are empty and value and display data are what processing the
\* default on a cleared field gives; the field is otherwise the same.
C20_LoadResets ==
    [][last'.op = "load" =>
         \E r \in {FieldProcess(FieldClear(fld), fld.default, TRUE)} :
            /\ fld'.raw_data = None
            /\ fld'.errors = <<>>
            /\ fld'.value = r.value
            /\ DataOf(fld') = DataOf(r)
            /\ fld' = r]_vars

\* what load does: the errors are emptied and the default is processed on
\* the field as it is; raw_data is kept, and so are value and data when the
\* default does not validate
C20_LoadProcessesDefault ==
    [][last'.op = "load" =>
         /\ fld' = FieldProcess(fld, fld.default, TRUE)
         /\ fld'.errors = <<>>
         /\ fld'.raw_data = fld.raw_data]_vars

(***************************************************************************)
(* FieldBaseMeta.__call__ and FieldBase.rebuild: a field keeps the         *)
(* arguments it was constructed with, and rebuild constructs a new field   *)
(* from them.  An optional argument is <<>> when absent and <<x>> when     *)
(* given; a dict entry that is absent is <<>> too.                         *)
(***************************************************************************)
\* the default of a field_info_args without one ("..."): the field is required
Required == "..."

\* the python_type of a field class
PythonType(cls) == IF cls = "IntegerField" THEN "int" ELSE "str"

\* the name a field gets when none is given
NoName == <<"n", "o", "-", "n", "a", "m", "e">>

\* calling the class with a positional name and a keyword name as well is a
\* TypeError (multiple values for argument 'name')
ConstructRaises(args, kw) == args # <<>> /\ kw.name # <<>>

\* FieldBaseMeta.__call__(cls, *args, **kwargs) and FieldBase.__init__:
\* field_info_args is popped from kwargs, the instance is built, and the
\* remaining kwargs are stored with the positional arguments under "args"
Construct(cls, args, kw) ==
    LET name == IF args # <<>> THEN args[1]
                ELSE IF kw.name # <<>> THEN kw.name[1] ELSE NoName
        configured == kw.field_info_args # <<>>
        fia == kw.field_info_args[1]
        alias == IF configured THEN <<fia.alias>> ELSE <<>>
    IN [cls |-> cls, name |-> name,
        id |-> IF kw.id # <<>> THEN kw.id ELSE alias,
        alias |-> alias,
        annotation |-> IF configured THEN fia.annotation ELSE PythonType(cls),
        default |-> IF configured /\ fia.default # Required
                    THEN fia.default ELSE None,
        required |-> configured /\ fia.default = Required,
        attributes |-> [args |-> <<args>>, name |-> kw.name, id |-> kw.id,
                        field_info_args |-> <<>>]]

\* get_form_field_python_type(field)
get_form_field_python_type(f) == f.annotation

\* FieldBase.rebuild(annotation, name, alias, default): the stored arguments
\* are read, and when they hold a field_info_args (left there by an earlier
\* rebuild) building the new one from it with alias=, annotation=, default=
\* given again is a TypeError; otherwise the stored dict itself is updated
\* with the name and the new field_info_args, "args" is popped from it, and
\* the class is called with what it then holds
rebuild(f, annotation, name, alias, default) ==
    LET z == f.attributes
        new_name == IF name # <<>> THEN name[1] ELSE f.name
        fia == [alias |-> IF alias # <<>> THEN alias[1] ELSE new_name,
                annotation |-> IF annotation # <<>> THEN annotation[1]
                               ELSE get_form_field_python_type(f),
                default |-> IF default # <<>> /\ Truthy(default[1])
                            THEN default[1] ELSE Required]
        args == IF z.args # <<>> THEN z.args[1] ELSE <<>>
        updated == [z EXCEPT !.name = <<new_name>>,
                             !.field_info_args = <<fia>>,
                             !.args = <<>>]
        kw == [name |-> updated.name, id |-> updated.id,
               field_info_args |-> updated.field_info_args]
    IN IF z.field_info_args # <<>>
       THEN [field |-> f, raised |-> TRUE, ret |-> <<>>]
       ELSE IF ConstructRaises(args, kw)
       THEN [field |-> [f EXCEPT !.attributes = updated],
             raised |-> TRUE, ret |-> <<>>]
       ELSE [field |-> [f EXCEPT !.attributes = updated],
             raised |-> FALSE, ret |-> <<Construct(f.cls, args, kw)>>]

(***************************************************************************)
(* SpecRebuild: a field as constructed (kept in obj) and the same field    *)
(* after any number of rebuild calls (fld).                                *)
(***************************************************************************)
FieldClasses == {"StringField", "IntegerField"}
RebuildNames == {<<"n">>, <<"m">>}
RebuildAliases == {<<"p", ".", "n">>}
RebuildDefaults == {"", "x"}
Optional(S) == {<<>>} \cup {<<x>> : x \in S}

\* the ways the field is constructed: the name positional or by keyword, an
\* id or none, no field_info_args or one with an alias and a default
InitRebuild ==
    /\ \E cls \in FieldClasses, positional \in BOOLEAN,
          id \in Optional({<<"i">>}),
          fia \in Optional([alias : {<<"A">>}, annotation : {"str"},
                            default : {Required, "x"}]) :
          fld = Construct(cls,
                          IF positional THEN << <<"n">> >> ELSE <<>>,
                          [name |-> IF positional THEN <<>> ELSE << <<"n">> >>,
                           id |-> id, field_info_args |-> fia])
    /\ obj = fld
    /\ last = [op |-> "init"]
    /\ lst = Unused /\ mgr = Unused /\ form = Unused

\* field.rebuild(annotation=, name=, alias=, default=)
RbRebuild ==
    /\ \E annotation \in Optional({"int"}), name \in Optional(RebuildNames),
          alias \in Optional(RebuildAliases),
          default \in Optional(RebuildDefaults) :
          \E r \in {rebuild(fld, annotation, name, alias, default)} :
             /\ fld' = r.field
             /\ last' = [op |-> "rebuild", annotation |-> annotation,
                         name |-> name, alias |-> alias, default |-> default,
                         raised |-> r.raised, ret |-> r.ret,
                         calls |-> IF last.op = "rebuild" THEN 2 ELSE 1]
    /\ UNCHANGED <<obj, lst, mgr, form>>

NextRebuild == RbRebuild

SpecRebuild == InitRebuild /\ [][NextRebuild]_vars

\* the returned field carries the overrides that were given
OverridesApplied(new, l) ==
    /\ l.name # <<>> => new.name = l.name[1]
    /\ l.alias # <<>> => new.alias = l.alias
    /\ l.annotation # <<>> => new.annotation = l.annotation[1]
    /\ l.default # <<>> => new.default = l.default[1]

\* C21: rebuild returns a new field of the same class that carries the
\* original's construction arguments with the given overrides applied, and
\* leaves the original's name, id, default and stored construction arguments
\* as they were, so that every call succeeds and returns what a first call
\* with the same arguments returns.
C21_RebuildLeavesOriginal ==
    [][last'.op = "rebuild" =>
         /\ ~last'.raised
         /\ fld' = fld
         /\ last'.ret[1].cls = fld.cls
         /\ OverridesApplied(last'.ret[1], last')
         /\ last'.name = <<>> => last'.ret[1].name = fld.name
         /\ last'.default = <<>> => last'.ret[1].default = fld.default
         /\ last'.ret = rebuild(obj, last'.annotation, last'.name, last'.alias,
                                last'.default).ret]_vars

\* what a first rebuild of a field constructed with its name by keyword
\* does: it returns a field of the same class with the name, alias and
\* annotation given (the field's own name and type when absent) and a
\* default given that is not falsy, and it leaves the original's name, id
\* and default as they were
C21_FirstRebuild ==
    [][(/\ last'.op = "rebuild" /\ last'.calls = 1
        /\ fld.attributes.name # <<>>) =>
         /\ ~last'.raised
         /\ last'.ret[1].cls = fld.cls
         /\ last'.ret[1].name = (IF last'.name # <<>> THEN last'.name[1]
                                 ELSE fld.name)
         /\ last'.ret[1].alias = (IF last'.alias # <<>> THEN last'.alias
                                  ELSE <<last'.ret[1].name>>)
         /\ last'.ret[1].annotation =
               (IF last'.annotation # <<>> THEN last'.annotation[1]
                ELSE fld.annotation)
         /\ (last'.default # <<>> /\ Truthy(last'.default[1]))
               => last'.ret[1].default = last'.default[1]
         /\ fld'.name = fld.name /\ fld'.id = fld.id
         /\ fld'.default = fld.default]_vars

(***************************************************************************)
(* FormManager.from_schema: the fields generated for a schema are cached   *)
(* on the schema (generate_fields_from_schema keeps the list it built, and *)
(* from_schema keeps the constructor parameters), and a manager's fields   *)
(* are the instances it is handed, loaded.  Two managers of one schema     *)
(* therefore hold the same field objects: what one writes, the other has.  *)
(***************************************************************************)
\* the fields generated for the schema of the forms
SchemaResolvers ==
    <<NewField(TextKey, TextAlias, "str", None),
      NewList(ListKey, ListKey, ListItemType, <<>>)>>

\* FormManager.from_schema twice: manager A, then manager B; same_schema
\* says whether B is made for the schema of A (the cached instances, loaded
\* again by B's constructor) or for another schema of the same shape
from_schema_twice(same_schema) ==
    LET a == NewManager(SchemaResolvers, FALSE)
        b == IF same_schema THEN NewManager(a.fields, FALSE)
             ELSE NewManager(SchemaResolvers, FALSE)
    IN [A |-> IF same_schema THEN [a EXCEPT !.fields = b.fields] ELSE a,
        B |-> b, same_schema |-> same_schema,
        alive |-> [k \in {"A", "B"} |-> TRUE]]

\* a step of one manager: its own attributes change, and its field objects
\* are those of the other manager too when the schema is the same
OneManagerSteps(ms, k, after) ==
    LET other == IF k = "A" THEN "B" ELSE "A"
    IN [ms EXCEPT ![k] = after,
                  ![other] = IF ms.same_schema
                             THEN [@ EXCEPT !.fields = after.fields] ELSE @]

(***************************************************************************)
(* SpecShared: two managers, their steps interleaved; lst holds the fields *)
(* manager B has when only B's own steps are applied.                      *)
(***************************************************************************)
SharedForms ==
    {(TextAlias :> "John ") @@ (DotKey(ListKey, <<"0">>) :> "7"),
     (DotKey(ListKey, <<"0">>) :> "John "),
     EmptyDict}

Managers == {"A", "B"}

InitShared ==
    /\ \E same_schema \in BOOLEAN : mgr = from_schema_twice(same_schema)
    /\ lst = NewManager(SchemaResolvers, FALSE)
    /\ last = [op |-> "init", by |-> "B"]
    /\ fld = Unused /\ obj = Unused /\ form = EmptyDict

\* await manager.process_form() on a submission (validate on a write request)
ShProcessForm ==
    /\ \E k \in Managers, fd \in SharedForms :
          \E r \in {ProcessForm(mgr[k], fd)} :
            \E alone \in {IF k = "B" THEN ProcessForm(lst, fd).mgr ELSE lst} :
             /\ mgr.alive[k]
             /\ WithinItems(r.mgr) /\ WithinItems(alone)
             /\ mgr' = OneManagerSteps(mgr, k, r.mgr)
             /\ lst' = alone
             /\ last' = [op |-> "process_form", by |-> k]
    /\ UNCHANGED <<fld, obj, form>>

\* manager.clear()
ShClear ==
    /\ \E k \in Managers :
          /\ mgr.alive[k]
          /\ mgr' = OneManagerSteps(mgr, k, ManagerClear(mgr[k]))
          /\ lst' = IF k = "B" THEN ManagerClear(lst) ELSE lst
          /\ last' = [op |-> "clear", by |-> k]
    /\ UNCHANGED <<fld, obj, form>>

\* teardown of manager A at the end of its request: __del__ calls clear
ShTeardown ==
    /\ mgr.alive["A"]
    /\ mgr' = [OneManagerSteps(mgr, "A", ManagerClear(mgr["A"]))
                 EXCEPT !.alive["A"] = FALSE]
    /\ last' = [op |-> "teardown", by |-> "A"]
    /\ UNCHANGED <<fld, lst, obj, form>>

NextShared == ShProcessForm \/ ShClear \/ ShTeardown

SpecShared == InitShared /\ [][NextShared]_vars

\* field f of manager B is as B's own steps alone leave it
AsAlone(f, alone) ==
    /\ f.value = alone.value /\ f.errors = alone.errors
    /\ f.raw_data = alone.raw_data
    /\ IsList(f) => f.items = alone.items

\* C22: no field instance is shared between two managers: whatever steps of
\* manager A (validation, clear, teardown) are interleaved with those of
\* manager B, also when both come from from_schema on the same schema, B's
\* fields have the value, errors, raw_data and items they would have if A's
\* steps had not run.
C22_NoSharedFields ==
    \A i \in 1..Len(mgr.B.fields) : AsAlone(mgr.B.fields[i], lst.fields[i])

\* managers made for different schemas do not touch each other's fields
C22_DistinctSchemas ==
    ~mgr.same_schema =>
       \A i \in 1..Len(mgr.B.fields) : AsAlone(mgr.B.fields[i], lst.fields[i])

(***************************************************************************)
(* Children of Object Fields: supplied explicitly (rebuilt under the       *)
(* object's prefix) or generated from the object's schema.  The generator  *)
(* keeps the fields it built for a schema and hands the same instances to  *)
(* every later caller, whatever name formatter that caller passes.         *)
(***************************************************************************)
\* generate_fields_from_schema(schema, format_name): cache is <<>> before the
\* first call for the schema and <<fields>> afterwards; prefix is <<>> for
\* the default formatter (the name itself) and <<p>> for an object's
generate_fields_from_schema(cache, prefix, child_specs) ==
    IF cache # <<>> THEN [fields |-> cache[1], cache |-> cache]
    ELSE LET fields ==
               [i \in 1..Len(child_specs) |->
                  NewField(child_specs[i].name,
                           IF prefix = <<>> THEN child_specs[i].name
                           ELSE name_formatter(prefix[1], child_specs[i].name),
                           child_specs[i].type, child_specs[i].default)]
         IN [fields |-> fields, cache |-> <<fields>>]

\* ObjectField(name=name, schema=S): setup generates the children, then the
\* field is loaded
SchemaObject(name, cache, child_specs) ==
    LET g == generate_fields_from_schema(cache, <<name>>, child_specs)
    IN [field |-> ObjectLoad([BlankObject(name, <<>>)
                                EXCEPT !.fields = g.fields]),
        cache |-> g.cache]

(***************************************************************************)
(* SpecIds: Object Fields built one after the other, with explicit         *)
(* children or from the one schema, then processed, loaded and cleared.    *)
(* obj is the sequence of the objects with, for each, whether its children *)
(* are the generated ones; lst is the generator's cache.                   *)
(***************************************************************************)
ObjectNames == {<<"o">>, <<"p">>}

IdsForms ==
    {(DotKey(<<"o">>, NameKey) :> "7") @@ (DotKey(<<"o">>, AgeKey) :> "7"),
     (DotKey(<<"p">>, NameKey) :> "John ")}

IdsInputs == {<<(NameKey :> "John ")>>}

InitIds ==
    /\ obj = <<>>
    /\ lst = <<>>
    /\ last = [op |-> "init"]
    /\ fld = Unused /\ mgr = Unused /\ form = EmptyDict

\* the children of a generated object are the cached instances: what a step
\* does to them shows in the cache and in every object that holds them
WithObject(os, i, after) ==
    [j \in 1..Len(os) |->
       IF j = i THEN [generated |-> os[i].generated, field |-> after]
       ELSE IF os[i].generated /\ os[j].generated
       THEN [os[j] EXCEPT !.field.fields = after.fields]
       ELSE os[j]]

CacheAfter(os, i, after, cache) ==
    IF os[i].generated THEN <<after.fields>> ELSE cache

\* ObjectField(name=name, fields=[...]) with explicit children
IdNewExplicit ==
    /\ Len(obj) < MaxObjects
    /\ \E name \in ObjectNames :
          /\ \A j \in 1..Len(obj) : obj[j].field.name # name
          /\ obj' = Append(obj, [generated |-> FALSE,
                                 field |-> NewObject(name,
                                                     ObjectChildSpecs("#7"))])
          /\ last' = [op |-> "new", name |-> name]
    /\ UNCHANGED <<fld, lst, mgr, form>>

\* ObjectField(name=name, schema=S)
IdNewGenerated ==
    /\ Len(obj) < MaxObjects
    /\ \E name \in ObjectNames :
        \E r \in {SchemaObject(name, lst, ObjectChildSpecs("#7"))} :
          /\ \A j \in 1..Len(obj) : obj[j].field.name # name
          /\ obj' = WithObject(Append(obj, [generated |-> TRUE,
                                            field |-> r.field]),
                               Len(obj) + 1, r.field)
          /\ lst' = <<r.field.fields>>
          /\ last' = [op |-> "new", name |-> name]
    /\ UNCHANGED <<fld, mgr, form>>

\* FormManager.from_schema(S): the schema's fields generated for a form
IdFromSchema ==
    /\ lst = <<>>
    /\ lst' = generate_fields_from_schema(lst, <<>>,
                                          ObjectChildSpecs("#7")).cache
    /\ last' = [op |-> "from_schema"]
    /\ UNCHANGED <<fld, obj, mgr, form>>

\* process, load, clear and process_form_data on one of the objects
IdProcess ==
    /\ \E i \in 1..Len(obj), data \in IdsInputs :
        \E after \in {ObjectProcess(obj[i].field, data, TRUE)} :
          /\ obj' = WithObject(obj, i, after)
          /\ lst' = CacheAfter(obj, i, after, lst)
          /\ last' = [op |-> "process", name |-> obj[i].field.name]
    /\ UNCHANGED <<fld, mgr, form>>

IdLoad ==
    /\ \E i \in 1..Len(obj) :
        \E after \in {ObjectLoad(obj[i].field)} :
          /\ obj' = WithObject(obj, i, after)
          /\ lst' = CacheAfter(obj, i, after, lst)
          /\ last' = [op |-> "load", name |-> obj[i].field.name]
    /\ UNCHANGED <<fld, mgr, form>>

IdClear ==
    /\ \E i \in 1..Len(obj) :
        \E after \in {ObjectClear(obj[i].field)} :
          /\ obj' = WithObject(obj, i, after)
          /\ lst' = CacheAfter(obj, i, after, lst)
          /\ last' = [op |-> "clear", name |-> obj[i].field.name]
    /\ UNCHANGED <<fld, mgr, form>>

IdProcessFormData ==
    /\ \E i \in 1..Len(obj), fd \in IdsForms :
        \E after \in {ObjectProcessFormData(obj[i].field, fd).field} :
          /\ obj' = WithObject(obj, i, after)
          /\ lst' = CacheAfter(obj, i, after, lst)
          /\ last' = [op |-> "process_form_data", name |-> obj[i].field.name]
    /\ UNCHANGED <<fld, mgr, form>>

NextIds ==
    \/ IdNewExplicit \/ IdNewGenerated \/ IdFromSchema
    \/ IdProcess \/ IdLoad \/ IdClear \/ IdProcessFormData

SpecIds == InitIds /\ [][NextIds]_vars

\* every child of the object is addressed at <object.id>.<child.name>
ChildIdsPrefixed(o) ==
    \A j \in 1..Len(o.fields) :
       /\ o.fields[j].id = DotKey(o.id, o.fields[j].name)
       /\ o.fields[j].alias = o.fields[j].id

\* C23: for every Object Field, its children explicit or generated from a
\* schema, also for two Object Fields with different ids built from the same
\* schema, each child's id is <object.id>.<child.name> from the end of
\* construction on, whatever is processed, loaded or cleared afterwards.
C23_ChildIdsPrefixed ==
    \A i \in 1..Len(obj) : ChildIdsPrefixed(obj[i].field)

\* it is so for the objects built with explicit children, and for the first
\* object generated from a schema nothing else had generated fields for
C23_ExplicitChildrenPrefixed ==
    \A i \in 1..Len(obj) :
       ~obj[i].generated => ChildIdsPrefixed(obj[i].field)

\* C24: iterating a Field List without items yields exactly one placeholder
\* item, iterating one with n > 0 items yields those items and adds none,
\* and the list's value, errors, raw_data and default are the same after the
\* iteration as before it.
C24_IterationPlaceholder ==
    [][last'.op = "iter" =>
         /\ IF lst.items = <<>>
            THEN /\ Len(lst'.items) = 1
                 /\ lst'.items[1].value = None
                 /\ lst'.items[1].raw_data = None
            ELSE lst'.items = lst.items
         /\ lst'.value = lst.value /\ lst'.errors = lst.errors
         /\ lst'.raw_data = lst.raw_data /\ lst'.default = lst.default]_vars

\* a list without items was iterated and holds its placeholder
C24_Witness ==
    /\ last.op = "iter" /\ last.before = 0
    /\ Len(lst.items) = 1 /\ lst.items[1].value = None

C26_ProcessAnySequence ==
    [][last'.op = "process" =>
         LET data == last'.data
         IN IF data = <<>>
            THEN lst'.items = <<>> /\ lst'.errors = lst.errors
            ELSE /\ Len(lst'.items) = Len(data[1])
                 /\ \A i \in 1..Len(data[1]) :
                       lst'.items[i] =
                         FieldProcess(
                           get_new_field_at(lst, DotKey(lst.id, IntToStr(i - 1))),
                           data[1][i], last'.suppress_error)]_vars

\* the same for lists only: a sequence that is not a list leaves no items
C26_ProcessList ==
    [][last'.op = "process" =>
         LET data == last'.data
         IN IF ~isinstance_list(data)
            THEN lst'.items = <<>> /\ lst'.errors = lst.errors
            ELSE /\ Len(lst'.items) = Len(data[1])
                 /\ \A i \in 1..Len(data[1]) :
                       lst'.items[i] =
                         FieldProcess(
                           get_new_field_at(lst, DotKey(lst.id, IntToStr(i - 1))),
                           data[1][i], last'.suppress_error)]_vars

\* the children that return errors for a submission, and the values the
\* other children return, keyed by child name
ChildrenWithErrors(o, fd) ==
    {i \in 1..Len(o.fields) : ObjectChildren(o, fd)[i].res.errors # <<>>}
AccumulatedValues(o, fd) ==
    LET child == ObjectChildren(o, fd)
        ok == {i \in 1..Len(o.fields) : child[i].res.data # <<>>}
    IN [k \in {o.fields[i].name : i \in ok} |->
          LET i == CHOOSE j \in ok : o.fields[j].name = k
          IN child[i].res.data[1][k]]

\* what C27 says of one call of process_form_data on the object o with the
\* submission fd, giving the object after and the result res
RecordValidationOutcome(o, fd, after, res) ==
    IF ChildrenWithErrors(o, fd) = {}
    THEN LET r == ObjectRecordValidate(AccumulatedValues(o, fd))
         IN IF r.errors = <<>>
            THEN /\ after.value = r.v
                 /\ res.data[1][o.name] = r.v
                 /\ res.errors = <<>>
            ELSE /\ after.value = o.value
                 /\ res.errors = r.errors
                 /\ after.errors = (o.name :> format_errors(r.errors))
    ELSE /\ after.value = o.value
         /\ res.data[1][o.name] = <<AccumulatedValues(o, fd)>>
         /\ res.errors # <<>>

\* C27: ObjectField.process_form_data runs the whole-record validation of the
\* accumulated child values if and only if no child returned errors; when it
\* succeeds the object's value is the validated record and the result carries
\* no errors; when it fails the value is not set, the result carries the
\* errors and the object's own errors hold them under the object's own name.
C27_WholeRecordValidation ==
    [][last'.op = "process_form_data" =>
         RecordValidationOutcome(obj, last'.form, obj', last'.res)]_vars

\* the same for calls on an object whose own errors are empty
C27_FromEmptyErrors ==
    [][(last'.op = "process_form_data" /\ obj.errors = EmptyDict) =>
         RecordValidationOutcome(obj, last'.form, obj', last'.res)]_vars

\* C29: the result of ObjectField.process_form_data depends only on the
\* current submission: whenever every child validates and the whole-record
\* validation succeeds, the returned error list is empty and the object's own
\* errors are empty, whatever the outcome of earlier calls on that field.
C29_ResultIndependentOfHistory ==
    [][(/\ last'.op = "process_form_data"
        /\ ChildrenWithErrors(obj, last'.form) = {}
        /\ ObjectRecordValidate(AccumulatedValues(obj, last'.form)).errors = <<>>)
          => (last'.res.errors = <<>> /\ obj'.errors = EmptyDict)]_vars

\* the same for the first call on an object, or the first after clear()
C29_FirstCall ==
    [][(/\ last'.op = "process_form_data"
        /\ last.op \in {"init", "clear"}
        /\ ChildrenWithErrors(obj, last'.form) = {}
        /\ ObjectRecordValidate(AccumulatedValues(obj, last'.form)).errors = <<>>)
          => (last'.res.errors = <<>> /\ obj'.errors = EmptyDict)]_vars

\* the display data FieldBase.process computes for a typed value
SerializedOrTyped(type, v) ==
    IF Truthy(EngineSerialize(type, v)) THEN EngineSerialize(type, v) ELSE v

\* C28: after a successful process(v) on a field in any prior state, also one
\* whose raw_data was set by an earlier process_form_data, the data property
\* equals the engine's serialization of the new typed value (or the typed
\* value itself), and no entry is added to errors.
C28_DisplayDataAfterProcess ==
    [][(/\ last'.op = "process"
        /\ EngineValidate(fld.type, last'.data, <<"FieldBase">>).errors = <<>>) =>
          /\ DataOf(fld') =
               SerializedOrTyped(fld.type,
                 EngineValidate(fld.type, last'.data, <<"FieldBase">>).v)
          /\ fld'.errors = <<>>]_vars

\* the same for a field that holds no submitted raw data
C28_WithoutRawData ==
    [][(/\ last'.op = "process"
        /\ ~Truthy(fld.raw_data)
        /\ EngineValidate(fld.type, last'.data, <<"FieldBase">>).errors = <<>>) =>
          /\ DataOf(fld') =
               SerializedOrTyped(fld.type,
                 EngineValidate(fld.type, last'.data, <<"FieldBase">>).v)
          /\ fld'.errors = <<>>]_vars

\* C30: after any sequence of add_item, process, process_form_data, iteration
\* and clear on a Field List the ids of its items are pairwise distinct, also
\* when the items were built from submitted indices with gaps.
C30_ItemKeysDistinct ==
    \A i \in 1..Len(lst.items), j \in 1..Len(lst.items) :
        i # j => lst.items[i].id # lst.items[j].id

====
